---- MODULE Spec2Model ----
(***************************************************************************)
(* slack-garcon: the mention pipeline.                                     *)
(*                                                                         *)
(* EventHandlerService.handleAppMention (event-handler.service.ts) drives  *)
(* SlackService (slack.service.ts) and GeminiService (gemini.service.ts):  *)
(* fetch the thread, convert every message, generate, post the reply; on   *)
(* any exception post an error notice and rethrow.                         *)
(*                                                                         *)
(* One handler invocation is modelled, one action per await of the code.   *)
(* The platform (thread content, failures of its calls), the provider      *)
(* (text or error of generateContent) and the process environment are the  *)
(* inputs.  Strings that the code builds by concatenation are sequences of *)
(* their pieces, so that concatenation is \o.                              *)
(***************************************************************************)
EXTENDS Integers, Sequences, FiniteSets, TLC

VARIABLES
    env,            \* process.env, as far as the generation client is concerned
    rawThread,      \* what conversations.replies reports for the thread
    directory,      \* what users.info reports for each user id
    botUserId,      \* SlackService.botUserId
    localBotId,     \* the handler's const botUserId (line 47)
    initState,      \* SlackService.initialize: "pending" | "ok" | "failed"
    event,          \* the app_mention event being handled
    pc,             \* position of handleAppMention
    slackMessages,  \* result of fetchThreadMessages
    geminiMessages, \* the Message[] the handler builds
    idx,            \* index of the handler's for-loop over slackMessages
    request,        \* what is handed to model.generateContent
    attempts,       \* the generateContent calls issued, in order, with their results
    response,       \* text returned by generateResponse
    error,          \* the exception caught by the handler's catch block
    postError,      \* the exception caught by the nested catch (notice post)
    postCalls,      \* chat.postMessage calls issued, in order
    posted,         \* chat.postMessage calls that succeeded, in order
    outcome,        \* how the handler's promise settled
    log,            \* the handler's external steps: calls and their returns
    fetchCall,      \* the arguments of the conversations.replies call
    fetched,        \* the image downloads fetchThreadMessages issued, in order
    imageFailures,  \* the images whose download by the generation client threw
    mainPc,         \* position of main() of the long-running deployment
    listening,      \* the Bolt app of GarconBot has been started
    exitCode,       \* <<>>, or <<c>> once process.exit(c) was called
    calls,          \* the Web API calls of the SlackService, with their attempts
    deliveries,     \* the HTTP deliveries the receiver Lambda has been invoked with
    queue,          \* the bodies of the messages sent to the events queue, in order
    fetchPc,        \* where a fetchThreadMessages call stands
    lookupCalls,    \* the user ids users.info was called with, in the order issued
    lookupsSettled,        \* the user ids whose lookup has settled, in settling order
    userMap,        \* the Map getUserInfoBatch fills
    fetchResults,   \* what the fetchThreadMessages calls returned, in order
    inv,            \* the handler invocations in flight together, each with its locals
    platformPosts,  \* the posts the platform accepted, with the invocation that made them
    genCalls,       \* the generateResponse calls of one process, in the order made
    promptReads,    \* how often readFile was called for system_prompt.txt
    procEnv,        \* process.env of the long-running process
    bootPc,         \* where main stands before bot.start is called
    config,         \* what getEnvConfig returned
    configError,    \* what getEnvConfig threw: the names of the missing variables
    signals,        \* the termination signals the process received
    stops,          \* the bot.stop() calls of the shutdown handler
    operation,      \* the RetryOperation of a retryOperation call
    retryPc,        \* where the retryOperation call stands
    fnCalls,        \* the calls of fn, in order, with their results
    failedAttempts, \* the onFailedAttempt calls, in order
    settlements,    \* the resolve and reject calls of the promise, in order
    initialized,    \* the flag of the queue processor's container
    sqsPc,          \* where the invocation of the queue processor stands
    records,        \* event.Records of that invocation
    recordIdx,      \* the record the for loop has reached
    initCalls,      \* how often the queue processor called initialize
    processings,    \* the handleAppMention calls of the queue processor, settled
    delivered,      \* the posts the platform accepted from the queue processor
    sqsResults,     \* how the invocations of the queue processor ended, in order
    sqsThrown       \* what the last invocation of the queue processor rejected with

vars == <<env, rawThread, directory, botUserId, localBotId, initState, event, pc, slackMessages,
          geminiMessages, idx, request, attempts, response, error, postError,
          postCalls, posted, outcome, log, fetchCall, fetched, imageFailures,
          mainPc, listening, exitCode, calls, deliveries, queue,
          fetchPc, lookupCalls, lookupsSettled, userMap, fetchResults,
          inv, platformPosts, genCalls, promptReads,
          procEnv, bootPc, config, configError, signals, stops,
          operation, retryPc, fnCalls, failedAttempts, settlements,
          initialized, sqsPc, records, recordIdx, initCalls, processings,
          delivered, sqsResults, sqsThrown>>

\* the state of main() and GarconBot.start
mainVars == <<mainPc, listening, exitCode>>

\* what no step of a mention handler touches
\* the state of the receiver Lambda and of its queue
receiverVars == <<deliveries, queue>>

\* the state of a fetchThreadMessages call followed step by step
threadVars == <<fetchPc, lookupCalls, lookupsSettled, userMap, fetchResults>>

\* the state of handler invocations that run together
concVars == <<inv, platformPosts>>

\* the generation calls of one process
promptVars == <<genCalls, promptReads>>

\* the state of main before the start of the bot and at its shutdown
bootVars == <<procEnv, bootPc, config, configError, signals, stops>>

\* the state of one retryOperation call
retryVars == <<operation, retryPc, fnCalls, failedAttempts, settlements>>

\* the state of the queue processor and of its container
sqsVars == <<initialized, sqsPc, records, recordIdx, initCalls, processings,
             delivered, sqsResults, sqsThrown>>

otherVars == <<mainVars, calls, receiverVars, threadVars, concVars, promptVars, bootVars,
               retryVars, sqsVars>>

-----------------------------------------------------------------------------
(* Bounds *)

MaxMsgs == 3
\* thread length under the fair specification (liveness is checked on it)
MaxLiveMsgs == 2

\* Web API calls the SlackService is followed over
MaxCalls == 3

\* deliveries the receiver Lambda is followed over
MaxDeliveries == 3

\* handler invocations in flight together
MaxInvocations == 2

\* generateResponse calls one process is followed over
MaxGenerations == 3

\* termination signals one process is followed over
MaxSignals == 2

\* direct fetchThreadMessages calls for one thread
MaxFetches == 2

\* options.retries of a retryOperation call (the callers pass 3)
MaxRetries == 3

\* records the queue hands to one container of the queue processor, over
\* all its invocations
MaxSqsRecords == 3

-----------------------------------------------------------------------------
(* Values *)

Null == "<null>"
Undefined == "<undefined>"
NoError == [message |-> "<none>", origin |-> "none"]

BotId == "UBOT"
BotLabel == "Garcon"
DefaultModel == "gemini-2.5-pro"
SystemPromptText == "<system_prompt.txt>"
NoticePrefix == "Sorry, something went wrong! ...\n\nError: "

Err(m, o) == [message |-> m, origin |-> o]

ErrNoBotId == "Bot user ID not initialized. Call initialize() first."
ErrTransient == "[503 Service Unavailable] The model is overloaded."
ErrPermanent == "[400 Bad Request] API key not valid."

\* The provider's capacity/unavailability condition (spec, section 4.3).
IsTransient(e) == e.message = ErrTransient

-----------------------------------------------------------------------------
(* config.ts *)

\* process.env: the model name, and the comma-separated fallback list that the
\* specification's configuration surface names (already split)
EnvOf(model, fallbacks) ==
    [GEMINI_MODEL |-> model, GEMINI_FALLBACK_MODELS |-> fallbacks]

Envs ==
    { EnvOf("", <<>>),
      EnvOf("model-a", <<"model-b", "model-c">>) }

\* getEnvConfig().geminiModel; GEMINI_FALLBACK_MODELS is not read anywhere.
GetEnvConfigModel(e) ==
    IF e.GEMINI_MODEL = "" THEN DefaultModel ELSE e.GEMINI_MODEL

\* The ordered model list the specification speaks of.
ModelList(e) == <<GetEnvConfigModel(e)>> \o e.GEMINI_FALLBACK_MODELS

-----------------------------------------------------------------------------
(* Sequence helpers *)

RECURSIVE Flatten(_)
Flatten(ss) == IF ss = <<>> THEN <<>> ELSE Head(ss) \o Flatten(Tail(ss))

RECURSIVE Join(_, _)
Join(ss, sep) ==
    IF ss = <<>> THEN <<>>
    ELSE IF Len(ss) = 1 THEN Head(ss)
    ELSE Head(ss) \o <<sep>> \o Join(Tail(ss), sep)

SeqsUpTo(S, n) == UNION {[1..k -> S] : k \in 0..n}

-----------------------------------------------------------------------------
(* The platform: threads and the user directory *)

File(url, mime, ok) == [url |-> url, mimetype |-> mime, name |-> "", ok |-> ok]

\* One message of conversations.replies.  "" stands for an absent field; ok of
\* a file says whether the authenticated download of its url answers 2xx.
RawMsg(user, botid, text, files) ==
    [user |-> user, bot_id |-> botid, text |-> text, files |-> files]

RawMsgs ==
    { RawMsg("U1", "", "two falafel", <<>>),
      RawMsg("U1", "", "the receipt", <<File("f1", "image/png", TRUE),
                                         File("f5", "application/pdf", TRUE)>>),
      RawMsg("U1", "", "the receipt", <<File("f2", "image/png", FALSE),
                                         File("f4", "image/jpeg", TRUE),
                                         File("f6", "image/gif", TRUE)>>),
      RawMsg("U2", "", "<@UBOT> one koshari", <<File("f3", "application/pdf", TRUE)>>),
      RawMsg(BotId, "", "on it", <<>>),
      RawMsg("", "B1", "", <<>>) }

\* no message occurs twice in the thread
Distinct(m) == \A i, j \in DOMAIN m : m[i] = m[j] => i = j

\* The answer of conversations.replies: result.messages is undefined, or holds
\* up to MaxMsgs messages (different ones) in chronological order.
RawThreads ==
    {[hasMessages |-> FALSE, messages |-> <<>>]}
        \cup {[hasMessages |-> TRUE, messages |-> m] :
                  m \in {s \in SeqsUpTo(RawMsgs, MaxMsgs) : Distinct(s)}}

Profile(name, real) == [kind |-> "user", name |-> name, real_name |-> real]
LookupFails == [kind |-> "error", name |-> "", real_name |-> ""]

DirectoryOk ==
    [id \in {"U1", "U2", BotId} |->
        CASE id = "U1" -> Profile("alice", "Alice A.")
          [] id = "U2" -> Profile("bob", "")
          [] OTHER     -> Profile("garcon", "Garcon Bot")]

\* users.info per id: a profile, or a failed call
Directories == {DirectoryOk, [DirectoryOk EXCEPT !["U1"] = LookupFails]}

\* app_mention events: one that roots a thread, one inside a thread
Events ==
    { [channel |-> "C1", ts |-> "100.1", thread_ts |-> ""],
      [channel |-> "C2", ts |-> "100.1", thread_ts |-> "099.0"] }

-----------------------------------------------------------------------------
(* slack.service.ts *)

\* a || b on strings
Or(a, b) == IF a # "" THEN a ELSE b

StartsWithB(id) == id \in {"B1"}
IsImageMime(m) == m \in {"image/png", "image/jpeg", "image/gif"}

\* Mutant: the fields of the profile are returned as they are, without defaults.
GetUserInfo_NoDefaults(dir, userId) ==
    IF userId \notin DOMAIN dir \/ dir[userId].kind # "user"
    THEN [found |-> FALSE, id |-> userId, name |-> "", realName |-> ""]
    ELSE [found |-> TRUE,
          id |-> userId,
          name |-> dir[userId].name,
          realName |-> Or(dir[userId].real_name, dir[userId].name)]

\* SlackService.getUserInfo: found is FALSE where the code returns null (the
\* call failed, or the answer holds no user)
GetUserInfo(dir, userId) ==
    IF userId \notin DOMAIN dir \/ dir[userId].kind # "user"
    THEN [found |-> FALSE, id |-> userId, name |-> "", realName |-> ""]
    ELSE [found |-> TRUE,
          id |-> userId,
          name |-> Or(dir[userId].name, "unknown"),
          realName |-> Or(dir[userId].real_name,
                          Or(dir[userId].name, "Unknown User"))]

\* SlackService.getUserInfoBatch: the map of the ids whose lookup gave a user
GetUserInfoBatch(dir, userIds) ==
    [id \in {u \in userIds : GetUserInfo(dir, u).found} |->
        [name |-> GetUserInfo(dir, id).name,
         realName |-> GetUserInfo(dir, id).realName]]

\* Mutant: the file loop does not look at the MIME type.
RECURSIVE ImageBlobs_AnyMime(_)
ImageBlobs_AnyMime(files) ==
    IF files = <<>> THEN <<>>
    ELSE LET f == Head(files)
             rest == ImageBlobs_AnyMime(Tail(files))
         IN IF f.url # "" /\ f.ok
            THEN <<[blob |-> <<"bytes", f.url>>, mimeType |-> f.mimetype,
                    name |-> Or(f.name, "image")]>> \o rest
            ELSE rest

\* the file loop of fetchThreadMessages: image files whose download succeeds
RECURSIVE ImageBlobs(_)
ImageBlobs(files) ==
    IF files = <<>> THEN <<>>
    ELSE LET f == Head(files)
             rest == ImageBlobs(Tail(files))
         IN IF f.url # "" /\ IsImageMime(f.mimetype) /\ f.ok
            THEN <<[blob |-> <<"bytes", f.url>>, mimeType |-> f.mimetype,
                    name |-> Or(f.name, "image")]>> \o rest
            ELSE rest

\* the urls passed to fetchImageAsBlob in the file loop of one message
RECURSIVE ImageFetches(_)
ImageFetches(files) ==
    IF files = <<>> THEN <<>>
    ELSE LET f == Head(files)
         IN (IF f.url # "" /\ IsImageMime(f.mimetype) THEN <<f.url>> ELSE <<>>)
                \o ImageFetches(Tail(files))

\* the image downloads of one fetchThreadMessages call, in the order issued
FetchedUrls(raw) ==
    IF ~raw.hasMessages THEN <<>>
    ELSE Flatten([k \in DOMAIN raw.messages |-> ImageFetches(raw.messages[k].files)])

SlackMessageOf(msg) ==
    [text |-> msg.text,
     user |-> Or(msg.user, Or(msg.bot_id, "unknown")),
     userName |-> Undefined,
     images |-> ImageBlobs(msg.files)]

\* SlackService.fetchThreadMessages, after conversations.replies has answered
FetchThreadMessages(raw, dir) ==
    IF ~raw.hasMessages THEN <<>>
    ELSE LET n == Len(raw.messages)
             messages == [k \in 1..n |-> SlackMessageOf(raw.messages[k])]
             uniqueUserIds ==
                 {id \in {messages[k].user : k \in 1..n} :
                     id # "unknown" /\ ~StartsWithB(id)}
             userInfoMap == GetUserInfoBatch(dir, uniqueUserIds)
         IN [k \in 1..n |->
                IF messages[k].user \in DOMAIN userInfoMap
                THEN [messages[k] EXCEPT !.userName =
                        Or(userInfoMap[messages[k].user].realName,
                           userInfoMap[messages[k].user].name)]
                ELSE messages[k]]

\* Mutant: an unset bot id is returned as the empty string.
GetBotUserId_NoThrow(id) ==
    IF id = Null THEN [threw |-> FALSE, value |-> ""]
    ELSE [threw |-> FALSE, value |-> id]

\* SlackService.getBotUserId: the id, or the exception it throws
GetBotUserId(id) ==
    IF id = Null THEN [threw |-> TRUE, value |-> ErrNoBotId]
    ELSE [threw |-> FALSE, value |-> id]

-----------------------------------------------------------------------------
(* image-processing.service.ts *)

\* Buffer.from(bytes).toString("base64")
Base64(bytes) == <<"base64", bytes>>

\* ImageProcessingService.convertBlobsToBase64
ConvertBlobsToBase64(blobImages) ==
    [j \in 1..Len(blobImages) |->
        [data |-> Base64(blobImages[j].blob), mimeType |-> blobImages[j].mimeType]]

-----------------------------------------------------------------------------
(* gemini.service.ts *)

TextPart(t) == [kind |-> "text", text |-> t, data |-> <<>>, mimeType |-> ""]
InlinePart(d, m) == [kind |-> "inlineData", text |-> <<>>, data |-> d, mimeType |-> m]

\* Mutant: the display name is used as it is, without the "User" default.
RoleLabel_NoDefault(msg) ==
    IF msg.role = "user" THEN msg.userName ELSE BotLabel

\* msg.role === "user" ? msg.userName || "User" : BotLabel
RoleLabel(msg) ==
    IF msg.role = "user"
    THEN (IF msg.userName \in {Undefined, ""} THEN "User" ELSE msg.userName)
    ELSE BotLabel

\* messages.some(msg => msg.images && msg.images.length > 0)
HasImages(messages) == \E k \in DOMAIN messages : Len(messages[k].images) > 0

\* GeminiService.buildPrompt: one string, here the sequence of its pieces
BuildPrompt(messages, systemPrompt) ==
    <<systemPrompt, "\n\nConversation:\n">>
        \o Join([k \in DOMAIN messages |->
                    <<RoleLabel(messages[k]), ": ", messages[k].content>>], "\n\n")
        \o <<"\n\n", BotLabel, ":">>

\* the positions <<message, image>> of the images of a conversation
ImagePositions(messages) ==
    UNION {{<<k, j>> : j \in DOMAIN messages[k].images} : k \in DOMAIN messages}

\* image.url of an element of msg.images (undefined when it has no such field)
ImageUrl(image) == IF "url" \in DOMAIN image THEN image.url ELSE Undefined

\* Mutant: the image's reference is put into the part instead of its bytes.
RECURSIVE ImageParts_Unresolved(_, _, _, _)
ImageParts_Unresolved(images, k, j, failed) ==
    IF j > Len(images) THEN <<>>
    ELSE <<InlinePart(<<"url", ImageUrl(images[j])>>, images[j].mimeType)>>
             \o ImageParts_Unresolved(images, k, j + 1, failed)

\* Mutant: a download that throws ends the loop over the message's images.
RECURSIVE ImageParts_StopAtFailure(_, _, _, _)
ImageParts_StopAtFailure(images, k, j, failed) ==
    IF j > Len(images) \/ <<k, j>> \in failed THEN <<>>
    ELSE <<InlinePart(Base64(<<"GET", ImageUrl(images[j])>>), images[j].mimeType)>>
             \o ImageParts_StopAtFailure(images, k, j + 1, failed)

\* the inner loop of generateResponseWithImages over one message's images:
\* an image whose fetch throws is logged and left out
RECURSIVE ImageParts(_, _, _, _)
ImageParts(images, k, j, failed) ==
    IF j > Len(images) THEN <<>>
    ELSE (IF <<k, j>> \in failed THEN <<>>
          ELSE <<InlinePart(Base64(<<"GET", ImageUrl(images[j])>>),
                           images[j].mimeType)>>)
         \o ImageParts(images, k, j + 1, failed)

\* Mutant: a message's images are pushed before its text.
BuildParts_ImagesFirst(messages, systemPrompt, failed) ==
    <<TextPart(<<systemPrompt>>), TextPart(<<"\nConversation:\n">>)>>
        \o Flatten([k \in DOMAIN messages |->
                      ImageParts(messages[k].images, k, 1, failed)
                          \o <<TextPart(<<RoleLabel(messages[k]), ": ",
                                          messages[k].content, "\n">>)>>])
        \o <<TextPart(<<"\n", BotLabel, ":">>)>>

\* GeminiService.generateResponseWithImages, up to the generateContent call
BuildParts(messages, systemPrompt, failed) ==
    <<TextPart(<<systemPrompt>>), TextPart(<<"\nConversation:\n">>)>>
        \o Flatten([k \in DOMAIN messages |->
                      <<TextPart(<<RoleLabel(messages[k]), ": ",
                                   messages[k].content, "\n">>)>>
                          \o ImageParts(messages[k].images, k, 1, failed)])
        \o <<TextPart(<<"\n", BotLabel, ":">>)>>

NoRequest == [kind |-> "none", prompt |-> <<>>, parts |-> <<>>]

\* one call of model.generateContent: result is "pending", "ok" (with the text
\* of the response) or the message of the error it threw
Attempt(model, result, text) == [model |-> model, result |-> result, text |-> text]

\* the last call settles
Settle(atts, result, text) ==
    [atts EXCEPT ![Len(atts)] = Attempt(atts[Len(atts)].model, result, text)]

IsUserMessage(msg) == msg.role = "user"

\* Mutant: only the human turns are put into the request.
BuildRequest_UsersOnly(messages, systemPrompt, failed) ==
    IF HasImages(messages)
    THEN [kind |-> "parts", prompt |-> <<>>,
          parts |-> BuildParts(SelectSeq(messages, IsUserMessage), systemPrompt, {})]
    ELSE [kind |-> "prompt", parts |-> <<>>,
          prompt |-> BuildPrompt(SelectSeq(messages, IsUserMessage), systemPrompt)]

\* GeminiService.generateResponse: the argument of model.generateContent
BuildRequest(messages, systemPrompt, failed) ==
    IF HasImages(messages)
    THEN [kind |-> "parts", prompt |-> <<>>,
          parts |-> BuildParts(messages, systemPrompt, failed)]
    ELSE [kind |-> "prompt", prompt |-> BuildPrompt(messages, systemPrompt),
          parts |-> <<>>]

-----------------------------------------------------------------------------
(* event-handler.service.ts: EventHandlerService.handleAppMention *)

Step(op, ph) == [op |-> op, ph |-> ph]

\* Mutant: the event's own timestamp is taken as the thread.
ThreadTs_OwnTs(ev) == ev.ts

\* const threadTs = thread_ts || ts
ThreadTs(ev) == Or(ev.thread_ts, ev.ts)

\* error instanceof Error ? error.message : ...  (everything thrown on these
\* paths is an Error)
ErrorMessage(e) == e.message

PostCall(channel, text, threadTs) ==
    [channel |-> channel, text |-> text, thread_ts |-> threadTs]

\* the reply post of line 85
ReplyCall(ev, text) == PostCall(ev.channel, <<text>>, ThreadTs(ev))

\* Mutant: the notice goes to the event's own timestamp, not to its thread.
NoticeCall_OwnTs(ev, e) ==
    PostCall(ev.channel, <<NoticePrefix, ErrorMessage(e)>>, ev.ts)

\* the notice post of lines 96-100
NoticeCall(ev, e) ==
    PostCall(ev.channel, <<NoticePrefix, ErrorMessage(e)>>, Or(ev.thread_ts, ev.ts))

\* Mutant: the two roles are swapped.
RoleOf_Swapped(user, bot) == IF user = bot THEN "user" ELSE "model"

\* role: msg.user === botUserId ? "model" : "user"
RoleOf(user, bot) == IF user = bot THEN "model" ELSE "user"

\* the Message of lines 51-61; images stays <<>> when the field is not set
GeminiMessage(msg, bot, images) ==
    [role |-> RoleOf(msg.user, bot),
     content |-> msg.text,
     userName |-> msg.userName,
     images |-> images]

\* Mutant: a failed notice post replaces the pipeline's error.
Rethrown_PostError(err, perr) == IF perr # NoError THEN perr ELSE err

\* throw error (line 107): what the handler rejects with
Rethrown(err, perr) == err

\* Mutant: the catch block logs and returns, posting nothing.
EnterCatch_Silent(op, e, before) ==
    /\ error' = e
    /\ log' = log \o before \o <<Step(op, "err")>>
    /\ postCalls' = postCalls
    /\ pc' = "done"

\* The catch block up to its await: the step op failed with e, the notice post
\* is issued.
EnterCatch(op, e, before) ==
    /\ error' = e
    /\ log' = log \o before \o <<Step(op, "err"), Step("notice", "call")>>
    /\ postCalls' = Append(postCalls, NoticeCall(event, e))
    /\ pc' = "notifying"

\* SlackService.initialize resolves: auth.test gave the bot's user id
InitializeOk ==
    /\ initState = "pending"
    /\ botUserId' = BotId
    /\ initState' = "ok"
    /\ UNCHANGED <<fetchCall, fetched, imageFailures, otherVars, env, rawThread, directory, localBotId, event, pc, slackMessages,
                   geminiMessages, idx, request, attempts, response, error,
                   postError, postCalls, posted, outcome, log>>

\* SlackService.initialize rejects
InitializeFails ==
    /\ initState = "pending"
    /\ initState' = "failed"
    /\ UNCHANGED <<fetchCall, fetched, imageFailures, otherVars, env, rawThread, directory, botUserId, localBotId, event, pc,
                   slackMessages, geminiMessages, idx, request, attempts, response,
                   error, postError, postCalls, posted, outcome, log>>

\* lines 22-40: the handler is invoked and issues the thread fetch
Receive(ev) ==
    /\ pc = "idle"
    /\ event' = ev
    /\ fetchCall' = [channel |-> ev.channel, ts |-> ThreadTs(ev)]
    /\ log' = <<Step("fetch", "call")>>
    /\ pc' = "fetching"
    /\ UNCHANGED <<fetched, imageFailures, otherVars, env, rawThread, directory, botUserId, initState, localBotId,
                   slackMessages, geminiMessages, idx, request, attempts, response,
                   error, postError, postCalls, posted, outcome>>

\* Mutant: a thread without messages is reported as a failure of the fetch.
FetchReturns_EmptyIsError ==
    /\ pc = "fetching"
    /\ slackMessages' = FetchThreadMessages(rawThread, directory)
    /\ fetched' = FetchedUrls(rawThread)
    /\ IF FetchThreadMessages(rawThread, directory) = <<>>
       THEN /\ EnterCatch("fetch", Err("No messages found in thread", "fetch"),
                          <<Step("fetch", "ret")>>)
            /\ UNCHANGED <<localBotId, idx>>
       ELSE IF GetBotUserId(botUserId).threw
       THEN /\ EnterCatch("botid", Err(GetBotUserId(botUserId).value, "botid"),
                          <<Step("fetch", "ret")>>)
            /\ UNCHANGED <<localBotId, idx>>
       ELSE /\ localBotId' = GetBotUserId(botUserId).value
            /\ idx' = 1
            /\ log' = Append(log, Step("fetch", "ret"))
            /\ pc' = "assembling"
            /\ UNCHANGED <<error, postCalls>>
    /\ UNCHANGED <<fetchCall, imageFailures, otherVars, env, rawThread, directory, botUserId, initState, event,
                   geminiMessages, request, attempts, response, postError, posted,
                   outcome>>

\* lines 37-48: the fetch returns; the bot id is read, which may throw
FetchReturns ==
    /\ pc = "fetching"
    /\ slackMessages' = FetchThreadMessages(rawThread, directory)
    /\ fetched' = FetchedUrls(rawThread)
    /\ IF GetBotUserId(botUserId).threw
       THEN /\ EnterCatch("botid", Err(GetBotUserId(botUserId).value, "botid"),
                          <<Step("fetch", "ret")>>)
            /\ UNCHANGED <<localBotId, idx>>
       ELSE /\ localBotId' = GetBotUserId(botUserId).value
            /\ idx' = 1
            /\ log' = Append(log, Step("fetch", "ret"))
            /\ pc' = "assembling"
            /\ UNCHANGED <<error, postCalls>>
    /\ UNCHANGED <<fetchCall, imageFailures, otherVars, env, rawThread, directory, botUserId, initState, event,
                   geminiMessages, request, attempts, response, postError, posted,
                   outcome>>

\* the fetch throws
FetchFails ==
    /\ pc = "fetching"
    /\ EnterCatch("fetch", Err("conversations.replies failed", "fetch"), <<>>)
    /\ UNCHANGED <<fetchCall, fetched, imageFailures, otherVars, env, rawThread, directory, botUserId, initState, localBotId,
                   event, slackMessages, geminiMessages, idx, request, attempts,
                   response, postError, posted, outcome>>

\* Mutant: the loop stops one message early.
LoopDone_OffByOne(i, messages) == i >= Len(messages)

\* for (const msg of slackMessages): the loop is over once every message was taken
LoopDone(i, messages) == i > Len(messages)

\* lines 50-73: one turn of the loop up to its next await, or, after the last
\* message, the call of generateResponse (which first awaits the system prompt)
AssembleNext ==
    /\ pc = "assembling"
    /\ IF LoopDone(idx, slackMessages)
       THEN /\ log' = Append(log, Step("generate", "call"))
            /\ pc' = "reading"
            /\ UNCHANGED <<geminiMessages, idx>>
       ELSE IF Len(slackMessages[idx].images) > 0
       THEN /\ log' = Append(log, Step("convert", "call"))
            /\ pc' = "converting"
            /\ UNCHANGED <<geminiMessages, idx>>
       ELSE /\ geminiMessages' =
                  Append(geminiMessages,
                         GeminiMessage(slackMessages[idx], localBotId, <<>>))
            /\ idx' = idx + 1
            /\ UNCHANGED <<log, pc>>
    /\ UNCHANGED <<fetchCall, fetched, imageFailures, otherVars, env, rawThread, directory, botUserId, initState, localBotId,
                   event, slackMessages, request, attempts, response, error,
                   postError, postCalls, posted, outcome>>

\* lines 58-63: convertBlobsToBase64 returns, the message is pushed
ConvertReturns ==
    /\ pc = "converting"
    /\ geminiMessages' =
          Append(geminiMessages,
                 GeminiMessage(slackMessages[idx], localBotId,
                               ConvertBlobsToBase64(slackMessages[idx].images)))
    /\ idx' = idx + 1
    /\ log' = Append(log, Step("convert", "ret"))
    /\ pc' = "assembling"
    /\ UNCHANGED <<fetchCall, fetched, imageFailures, otherVars, env, rawThread, directory, botUserId, initState, localBotId,
                   event, slackMessages, request, attempts, response, error,
                   postError, postCalls, posted, outcome>>

\* convertBlobsToBase64 throws (blob.arrayBuffer rejects)
ConvertFails ==
    /\ pc = "converting"
    /\ EnterCatch("convert", Err("arrayBuffer failed", "convert"), <<>>)
    /\ UNCHANGED <<fetchCall, fetched, imageFailures, otherVars, env, rawThread, directory, botUserId, initState, localBotId,
                   event, slackMessages, geminiMessages, idx, request, attempts,
                   response, postError, posted, outcome>>

\* gemini.service.ts 39-55 and 72-122: the system prompt was read; the request
\* is built (each image fetch of the image path succeeds or throws, as the
\* platform decides) and model.generateContent is issued on the one model of
\* the service
SystemPromptRead ==
    /\ pc = "reading"
    /\ \E failed \in SUBSET ImagePositions(geminiMessages) :
          /\ request' = BuildRequest(geminiMessages, SystemPromptText, failed)
          /\ imageFailures' = failed
    /\ attempts' = Append(attempts, Attempt(GetEnvConfigModel(env), "pending", ""))
    /\ pc' = "generating"
    /\ UNCHANGED <<fetchCall, fetched, otherVars, env, rawThread, directory, botUserId, initState, localBotId,
                   event, slackMessages, geminiMessages, idx, response, error,
                   postError, postCalls, posted, outcome, log>>

\* readFile of system_prompt.txt throws: generateResponse rejects
SystemPromptFails ==
    /\ pc = "reading"
    /\ EnterCatch("generate", Err("ENOENT: system_prompt.txt", "generate"), <<>>)
    /\ UNCHANGED <<fetchCall, fetched, imageFailures, otherVars, env, rawThread, directory, botUserId, initState, localBotId,
                   event, slackMessages, geminiMessages, idx, request, attempts,
                   response, postError, posted, outcome>>

\* Mutant: an empty text is treated as a failed generation.
GenerateReturns_EmptyIsError(text) ==
    /\ pc = "generating"
    /\ attempts' = Settle(attempts, "ok", text)
    /\ IF text = ""
       THEN /\ EnterCatch("generate", Err("Empty response", "generate"), <<>>)
            /\ UNCHANGED response
       ELSE /\ response' = text
            /\ log' = log \o <<Step("generate", "ret"), Step("post", "call")>>
            /\ postCalls' = Append(postCalls, ReplyCall(event, text))
            /\ pc' = "posting"
            /\ UNCHANGED error
    /\ UNCHANGED <<fetchCall, fetched, imageFailures, otherVars, env, rawThread, directory, botUserId, initState, localBotId,
                   event, slackMessages, geminiMessages, idx, request,
                   postError, posted, outcome>>

\* gemini.service.ts 55-64, handler lines 71-85: generateContent returns text,
\* generateResponse returns it and the handler issues the reply post
GenerateReturns(text) ==
    /\ pc = "generating"
    /\ attempts' = Settle(attempts, "ok", text)
    /\ response' = text
    /\ log' = log \o <<Step("generate", "ret"), Step("post", "call")>>
    /\ postCalls' = Append(postCalls, ReplyCall(event, text))
    /\ pc' = "posting"
    /\ UNCHANGED <<fetchCall, fetched, imageFailures, otherVars, env, rawThread, directory, botUserId, initState, localBotId,
                   event, slackMessages, geminiMessages, idx, request,
                   error, postError, posted, outcome>>

\* Mutant: a transient failure moves on to the next configured fallback model.
GenerateFails_Fallback(e) ==
    /\ pc = "generating"
    /\ IF e = ErrTransient /\ Len(attempts) < Len(ModelList(env))
       THEN /\ attempts' = Append(Settle(attempts, e, ""),
                                  Attempt(ModelList(env)[Len(attempts) + 1], "pending", ""))
            /\ UNCHANGED <<error, log, postCalls, pc>>
       ELSE /\ attempts' = Settle(attempts, e, "")
            /\ EnterCatch("generate", Err(e, "generate"), <<>>)
    /\ UNCHANGED <<fetchCall, fetched, imageFailures, otherVars, env, rawThread, directory, botUserId, initState, localBotId,
                   event, slackMessages, geminiMessages, idx, request,
                   response, postError, posted, outcome>>

\* Mutant: any failure is retried once on the same model.
GenerateFails_RetryAny(e) ==
    /\ pc = "generating"
    /\ IF Len(attempts) < 2
       THEN /\ attempts' = Append(Settle(attempts, e, ""),
                                  Attempt(attempts[1].model, "pending", ""))
            /\ UNCHANGED <<error, log, postCalls, pc>>
       ELSE /\ attempts' = Settle(attempts, e, "")
            /\ EnterCatch("generate", Err(e, "generate"), <<>>)
    /\ UNCHANGED <<fetchCall, fetched, imageFailures, otherVars, env, rawThread, directory, botUserId, initState, localBotId,
                   event, slackMessages, geminiMessages, idx, request,
                   response, postError, posted, outcome>>

\* Mutant: the provider's error is replaced by an error of the service.
GenerateFails_Wrapped(e) ==
    /\ pc = "generating"
    /\ attempts' = Settle(attempts, e, "")
    /\ EnterCatch("generate", Err("Failed to generate a response", "generate"), <<>>)
    /\ UNCHANGED <<fetchCall, fetched, imageFailures, otherVars, env, rawThread, directory, botUserId, initState, localBotId,
                   event, slackMessages, geminiMessages, idx, request,
                   response, postError, posted, outcome>>

\* generateContent throws e: nothing in generateResponse catches it, so it
\* reaches the handler's catch block
GenerateFails(e) ==
    /\ pc = "generating"
    /\ attempts' = Settle(attempts, e, "")
    /\ EnterCatch("generate", Err(e, "generate"), <<>>)
    /\ UNCHANGED <<fetchCall, fetched, imageFailures, otherVars, env, rawThread, directory, botUserId, initState, localBotId,
                   event, slackMessages, geminiMessages, idx, request,
                   response, postError, posted, outcome>>

\* lines 85-87: the reply post returns and the handler resolves
PostReturns ==
    /\ pc = "posting"
    /\ posted' = Append(posted, postCalls[Len(postCalls)])
    /\ log' = Append(log, Step("post", "ret"))
    /\ outcome' = [state |-> "resolved", thrown |-> NoError]
    /\ pc' = "done"
    /\ UNCHANGED <<fetchCall, fetched, imageFailures, otherVars, env, rawThread, directory, botUserId, initState, localBotId,
                   event, slackMessages, geminiMessages, idx, request, attempts,
                   response, error, postError, postCalls>>

\* the reply post throws
PostFails ==
    /\ pc = "posting"
    /\ EnterCatch("post", Err("chat.postMessage failed", "post"), <<>>)
    /\ UNCHANGED <<fetchCall, fetched, imageFailures, otherVars, env, rawThread, directory, botUserId, initState, localBotId,
                   event, slackMessages, geminiMessages, idx, request, attempts,
                   response, postError, posted, outcome>>

\* Mutant: the catch block ends after the notice post, without throw error.
NoticeReturns_Resolves ==
    /\ pc = "notifying"
    /\ posted' = Append(posted, postCalls[Len(postCalls)])
    /\ log' = Append(log, Step("notice", "ret"))
    /\ outcome' = [state |-> "resolved", thrown |-> NoError]
    /\ pc' = "done"
    /\ UNCHANGED <<fetchCall, fetched, imageFailures, otherVars, env, rawThread, directory, botUserId, initState, localBotId,
                   event, slackMessages, geminiMessages, idx, request, attempts,
                   response, error, postError, postCalls>>

\* lines 96-107: the notice post returns; throw error
NoticeReturns ==
    /\ pc = "notifying"
    /\ posted' = Append(posted, postCalls[Len(postCalls)])
    /\ log' = Append(log, Step("notice", "ret"))
    /\ outcome' = [state |-> "rejected", thrown |-> Rethrown(error, postError)]
    /\ pc' = "done"
    /\ UNCHANGED <<fetchCall, fetched, imageFailures, otherVars, env, rawThread, directory, botUserId, initState, localBotId,
                   event, slackMessages, geminiMessages, idx, request, attempts,
                   response, error, postError, postCalls>>

\* lines 101-107: the notice post throws, which is logged; throw error
NoticeFails ==
    /\ pc = "notifying"
    /\ postError' = Err("chat.postMessage failed", "notice")
    /\ log' = Append(log, Step("notice", "err"))
    /\ outcome' = [state |-> "rejected",
                   thrown |-> Rethrown(error, Err("chat.postMessage failed", "notice"))]
    /\ pc' = "done"
    /\ UNCHANGED <<fetchCall, fetched, imageFailures, otherVars, env, rawThread, directory, botUserId, initState, localBotId,
                   event, slackMessages, geminiMessages, idx, request, attempts,
                   response, error, posted, postCalls>>

\* process.env: Undefined stands for a variable that is not set
ProcEnv(bot, app, secret, key, model, port) ==
    [SLACK_BOT_TOKEN |-> bot, SLACK_APP_TOKEN |-> app, SLACK_SIGNING_SECRET |-> secret,
     GEMINI_API_KEY |-> key, GEMINI_MODEL |-> model, PORT |-> port]

NoProcEnv == ProcEnv(Undefined, Undefined, Undefined, Undefined, Undefined, Undefined)

\* the EnvConfig of config.ts; loaded is FALSE while there is none
Config(loaded, bot, app, secret, key, model, port) ==
    [loaded |-> loaded, slackBotToken |-> bot, slackAppToken |-> app,
     slackSigningSecret |-> secret, geminiApiKey |-> key, geminiModel |-> model,
     port |-> port]

NoConfig == Config(FALSE, Undefined, Undefined, Undefined, Undefined, Undefined, 0)

\* the handler invocations followed together, and one that has not started
Invocations == 1..MaxInvocations

IdleInvocation ==
    [pc |-> "idle",
     event |-> [channel |-> "", ts |-> "", thread_ts |-> ""],
     slackMessages |-> <<>>,
     botId |-> Null,
     geminiMessages |-> <<>>,
     request |-> NoRequest,
     response |-> Null,
     error |-> NoError,
     post |-> PostCall("", <<>>, "")]

-----------------------------------------------------------------------------
(* The specification *)

ResponseTexts == {"ok", ""}
GenerationErrors == {ErrTransient, ErrPermanent}

\* the RetryOperation of the retry package: the retries it was created for,
\* the timeouts not yet used, the number of the current attempt and the
\* errors passed to retry()
RetryOperation(retries, timeouts, attempt, errors) ==
    [retries |-> retries, timeouts |-> timeouts, attempts |-> attempt,
     errors |-> errors]

NoOperation == RetryOperation(0, 0, 0, <<>>)

\* the services and the handler as they are after construction, before any call
Constructed ==
    /\ botUserId = Null
    /\ initState = "pending"
    /\ localBotId = Null
    /\ event = [channel |-> "", ts |-> "", thread_ts |-> ""]
    /\ pc = "idle"
    /\ slackMessages = <<>>
    /\ geminiMessages = <<>>
    /\ idx = 0
    /\ request = NoRequest
    /\ attempts = <<>>
    /\ response = Null
    /\ error = NoError
    /\ postError = NoError
    /\ postCalls = <<>>
    /\ posted = <<>>
    /\ outcome = [state |-> "pending", thrown |-> NoError]
    /\ log = <<>>
    /\ fetchCall = [channel |-> "", ts |-> ""]
    /\ fetched = <<>>
    /\ imageFailures = {}
    /\ mainPc = "start"
    /\ listening = FALSE
    /\ exitCode = <<>>
    /\ calls = <<>>
    /\ deliveries = <<>>
    /\ queue = <<>>
    /\ fetchPc = "idle"
    /\ lookupCalls = <<>>
    /\ lookupsSettled = <<>>
    /\ userMap = <<>>
    /\ fetchResults = <<>>
    /\ inv = [i \in Invocations |-> IdleInvocation]
    /\ platformPosts = <<>>
    /\ genCalls = <<>>
    /\ promptReads = 0
    /\ procEnv = NoProcEnv
    /\ bootPc = "off"
    /\ config = NoConfig
    /\ configError = <<>>
    /\ signals = <<>>
    /\ stops = <<>>
    /\ operation = NoOperation
    /\ retryPc = "idle"
    /\ fnCalls = <<>>
    /\ failedAttempts = <<>>
    /\ settlements = <<>>
    /\ initialized = FALSE
    /\ sqsPc = "idle"
    /\ records = <<>>
    /\ recordIdx = 0
    /\ initCalls = 0
    /\ processings = <<>>
    /\ delivered = <<>>
    /\ sqsResults = <<>>
    /\ sqsThrown = NoError

Init ==
    /\ env \in Envs
    /\ rawThread \in RawThreads
    /\ directory \in Directories
    /\ Constructed

Next ==
    \/ InitializeOk
    \/ InitializeFails
    \/ \E ev \in Events : Receive(ev)
    \/ FetchReturns
    \/ FetchFails
    \/ AssembleNext
    \/ ConvertReturns
    \/ ConvertFails
    \/ SystemPromptRead
    \/ SystemPromptFails
    \/ \E text \in ResponseTexts : GenerateReturns(text)
    \/ \E e \in GenerationErrors : GenerateFails(e)
    \/ PostReturns
    \/ PostFails
    \/ NoticeReturns
    \/ NoticeFails

Spec == Init /\ [][Next]_vars

\* Every call the handler awaits returns or throws.
HandlerStep ==
    \/ FetchReturns
    \/ FetchFails
    \/ AssembleNext
    \/ ConvertReturns
    \/ ConvertFails
    \/ SystemPromptRead
    \/ SystemPromptFails
    \/ \E text \in ResponseTexts : GenerateReturns(text)
    \/ \E e \in GenerationErrors : GenerateFails(e)
    \/ PostReturns
    \/ PostFails
    \/ NoticeReturns
    \/ NoticeFails

\* The same program over the threads of at most MaxLiveMsgs messages, with every
\* awaited call settling.
FairInit == Init /\ Len(rawThread.messages) <= MaxLiveMsgs

FairSpec == FairInit /\ [][Next]_vars /\ WF_vars(HandlerStep)

-----------------------------------------------------------------------------
(* Vocabulary of the claims *)

Calls(op) == {k \in DOMAIN log : log[k] = Step(op, "call")}
Returns(op) == {k \in DOMAIN log : log[k] = Step(op, "ret")}

\* the thread of the event: thread_ts when present, ts otherwise
EventThread == IF event.thread_ts # "" THEN event.thread_ts ELSE event.ts

IsNotice(m) == Len(m.text) = 2 /\ m.text[1] = NoticePrefix
Notices(posts) == SelectSeq(posts, IsNotice)
IsReply(m) == Len(m.text) = 1
Replies(posts) == SelectSeq(posts, IsReply)

\* the notice that reports error into the thread of the event
NoticeOf(e) ==
    [channel |-> event.channel, text |-> <<NoticePrefix, e.message>>,
     thread_ts |-> EventThread]

\* the pipeline failed after the thread fetch had succeeded
FailedAfterFetch == error.origin \in {"botid", "convert", "generate", "post"}

-----------------------------------------------------------------------------
(* C1 *)

\* C1: within one invocation the external steps form a strict linear
\* pipeline: no call is issued while another is outstanding, a return follows
\* its own call, the thread fetch has returned before any conversion, every
\* message is assembled when generateResponse is called, the reply post
\* directly follows the return of generateResponse, and the fetch, the
\* generation and the reply post are each issued at most once.
C1_LinearPipeline ==
    /\ \A k \in DOMAIN log :
          /\ (log[k].ph = "call" /\ k > 1) => log[k - 1].ph \in {"ret", "err"}
          /\ log[k].ph = "ret" => (k > 1 /\ log[k - 1] = Step(log[k].op, "call"))
    /\ \A op \in {"fetch", "generate", "post"} : Cardinality(Calls(op)) <= 1
    /\ \A k \in Calls("convert") :
          \E j \in Returns("fetch") : j < k /\ \A g \in Calls("generate") : k < g
    /\ \A g \in Calls("generate") :
          /\ \E j \in Returns("fetch") : j < g
          /\ Cardinality(Returns("convert")) = Cardinality(Calls("convert"))
          /\ Len(geminiMessages) = Len(slackMessages)
    /\ \A k \in Calls("post") : k > 1 /\ log[k - 1] = Step("generate", "ret")
    /\ Calls("fetch") \subseteq {1}

\* a successful run over a thread of two or more messages, one with an image
C1_Witness ==
    /\ pc = "done"
    /\ outcome.state = "resolved"
    /\ Len(slackMessages) >= 2
    /\ Returns("convert") # {}

-----------------------------------------------------------------------------
(* C2 *)

\* C2 as stated: whenever the handler has failed after the thread fetch
\* succeeded, exactly one error notice with the error's message is in the
\* originating thread and the handler has rejected with the original error.
C2_Original ==
    (pc = "done" /\ FailedAfterFetch) =>
        /\ Notices(posted) = <<NoticeOf(error)>>
        /\ outcome = [state |-> "rejected", thrown |-> error]

\* C2, amended: whenever the handler has failed after the thread fetch
\* succeeded, exactly one notice post was issued, with the error's message, to
\* the event's channel and thread; the notice is in the thread exactly once
\* unless that post itself failed, and then not at all; the handler has
\* rejected with the original error.
C2_OneNoticeAttempt ==
    (pc = "done" /\ FailedAfterFetch) =>
        /\ Notices(postCalls) = <<NoticeOf(error)>>
        /\ Notices(posted) = IF postError = NoError THEN <<NoticeOf(error)>> ELSE <<>>
        /\ outcome = [state |-> "rejected", thrown |-> error]

\* inside a thread, generation failed and the notice was posted
C2_Witness ==
    /\ pc = "done"
    /\ error.origin = "generate"
    /\ event.thread_ts # ""
    /\ Notices(posted) # <<>>

-----------------------------------------------------------------------------
(* C3 *)

\* C3: when the pipeline failed and the notice post failed too, the handler
\* rejects with the pipeline's error, never with the error of the notice
\* post, and no notice is in the thread.
C3_OriginalErrorSurfaces ==
    (pc = "done" /\ postError # NoError) =>
        /\ outcome.state = "rejected"
        /\ outcome.thrown = error
        /\ outcome.thrown.origin # "notice"
        /\ error # NoError
        /\ Notices(posted) = <<>>

\* the reply post failed and then the notice post failed
C3_Witness ==
    /\ pc = "done"
    /\ error.origin = "post"
    /\ postError.origin = "notice"

-----------------------------------------------------------------------------
(* C4 *)

\* the handler has terminated with the answer posted, or with the notice
\* posted, or with nothing posted and the notice post failed
Terminated ==
    /\ pc = "done"
    /\ \/ /\ outcome.state = "resolved"
          /\ posted = <<ReplyCall(event, response)>>
       \/ /\ outcome.state = "rejected"
          /\ postError = NoError
          /\ Notices(posted) = <<NoticeOf(error)>>
       \/ /\ outcome.state = "rejected"
          /\ postError # NoError
          /\ Notices(posted) = <<>>

\* C4: if every call the handler awaits returns or throws, every mention that
\* reaches the handler ends with the answer posted or an error notice
\* posted; it ends with neither only when the notice post itself failed.
C4_NoSilentDrop == (pc = "fetching") ~> Terminated

\* the mention ended with a notice after the conversion of an image failed
C4_Witness ==
    /\ pc = "done"
    /\ error.origin = "convert"
    /\ Len(Notices(posted)) = 1

-----------------------------------------------------------------------------
(* C5 *)

AttemptedModels == [k \in DOMAIN attempts |-> attempts[k].model]
PreferredFailed(e) == attempts # <<>> /\ attempts[1].result = e

-----------------------------------------------------------------------------
(* C6 *)

\* C6: when the preferred model failed with a non-transient error, that error
\* is raised at once (it is the error the handler caught and rejects with)
\* and no further generation call is issued on any model.
C6_NonTransientRaises ==
    PreferredFailed(ErrPermanent) =>
        /\ Len(attempts) = 1
        /\ error = Err(ErrPermanent, "generate")
        /\ response = Null
        /\ pc \in {"notifying", "done"}
        /\ pc = "done" => outcome = [state |-> "rejected", thrown |-> error]

\* the handler has rejected after a non-transient failure
C6_Witness ==
    /\ PreferredFailed(ErrPermanent)
    /\ pc = "done"
    /\ outcome.state = "rejected"

-----------------------------------------------------------------------------
(* C7 *)

\* every generation call issued so far has failed with the transient error
OnlyTransientFailures ==
    /\ attempts # <<>>
    /\ \A k \in DOMAIN attempts : attempts[k].result = ErrTransient

-----------------------------------------------------------------------------
(* C8 *)

ProviderReturnedEmpty ==
    /\ attempts # <<>>
    /\ attempts[Len(attempts)].result = "ok"
    /\ attempts[Len(attempts)].text = ""

\* C8: an empty text from the provider is no error: generateResponse returns
\* the empty string and the handler goes on to post it as the reply; nothing
\* is raised and no notice is issued on account of it (only a failure of the
\* reply post itself can still take the handler to its catch block).
C8_EmptyTextIsValid ==
    ProviderReturnedEmpty =>
        /\ response = ""
        /\ postCalls # <<>>
        /\ postCalls[1] =
              [channel |-> event.channel, text |-> <<"">>, thread_ts |-> EventThread]
        /\ error.origin \in {"none", "post"}
        /\ error = NoError => (Notices(postCalls) = <<>> /\ outcome.state # "rejected")
        /\ (pc = "done" /\ error = NoError) =>
              (outcome.state = "resolved" /\ posted = <<postCalls[1]>>)

\* the empty reply was posted and the handler resolved
C8_Witness ==
    /\ ProviderReturnedEmpty
    /\ pc = "done"
    /\ outcome.state = "resolved"
    /\ Len(posted) = 1

-----------------------------------------------------------------------------
(* C9 *)

IsTextPart(p) == p.kind = "text"

\* the text units of a request: its text parts, or the one prompt string
TextUnits(req) ==
    IF req.kind = "parts" THEN SelectSeq(req.parts, IsTextPart)
    ELSE <<TextPart(req.prompt)>>

\* the label of message k: the bot's label for the bot's own messages, the
\* resolved display name or "User" for everybody else
LabelOf(k) ==
    IF slackMessages[k].user = botUserId THEN BotLabel
    ELSE IF slackMessages[k].userName \in {Undefined, ""} THEN "User"
    ELSE slackMessages[k].userName

-----------------------------------------------------------------------------
(* C10 *)

\* C10: every message the handler builds has the role "model" exactly when
\* the author id of its thread message equals the cached bot user id, and
\* the role "user" otherwise; once generation is called there is one built
\* message per thread message.
C10_RoleByAuthor ==
    /\ Len(geminiMessages) <= Len(slackMessages)
    /\ request.kind # "none" => Len(geminiMessages) = Len(slackMessages)
    /\ \A k \in DOMAIN geminiMessages :
          /\ geminiMessages[k].role \in {"model", "user"}
          /\ geminiMessages[k].role = "model" <=> slackMessages[k].user = botUserId
          /\ geminiMessages[k].role = "user" <=> slackMessages[k].user # botUserId

\* two human messages and then the bot's reply: user, user, model
C10_Witness ==
    /\ Len(slackMessages) = 3
    /\ slackMessages[1].user = "U1" /\ slackMessages[2].user = "U2"
    /\ slackMessages[3].user = BotId
    /\ [k \in DOMAIN geminiMessages |-> geminiMessages[k].role]
          = <<"user", "user", "model">>

-----------------------------------------------------------------------------
(* C11 *)

\* the label piece of message k's text unit in the request
UnitLabel(k) ==
    IF request.kind = "parts" THEN TextUnits(request)[k + 2].text[1]
    ELSE request.prompt[4 * k - 1]

\* the author of message k is absent from the resolved name mapping
Unresolved(k) == slackMessages[k].userName = Undefined

\* C11: in the request handed to the model, the label of every message whose
\* author id is absent from the resolved name mapping is the raw author id or
\* the fixed placeholder "User" (the bot's fixed label for the bot's own
\* messages), and is never undefined or the empty string.
C11_UnresolvedLabel ==
    request.kind # "none" =>
        \A k \in DOMAIN slackMessages :
            Unresolved(k) =>
                /\ UnitLabel(k) \notin {Undefined, ""}
                /\ UnitLabel(k) \in
                      {slackMessages[k].user, "User"}
                          \cup (IF slackMessages[k].user = botUserId
                                THEN {BotLabel} ELSE {})

\* a request, with parts, for a thread that holds a message of U1 whose
\* lookup failed and a message of an integration (bot_id B1, never looked up)
C11_Witness ==
    /\ request.kind = "parts"
    /\ \E k \in DOMAIN slackMessages :
          Unresolved(k) /\ slackMessages[k].user = "U1"
    /\ \E k \in DOMAIN slackMessages :
          Unresolved(k) /\ slackMessages[k].user = "B1"

-----------------------------------------------------------------------------
(* C12 *)

\* the thread fetch of this invocation has returned its messages
Fetched == Returns("fetch") # {} /\ rawThread.hasMessages

\* the MIME types that start with "image/", among those of the threads
ImageMimes == {"image/png", "image/jpeg", "image/gif"}

\* the file of message k that was downloaded from url
FilesAt(k, url) ==
    {j \in DOMAIN rawThread.messages[k].files :
        rawThread.messages[k].files[j].url = url}

\* the urls the images of message k were downloaded from
ImageSources(k) ==
    [j \in DOMAIN slackMessages[k].images |-> slackMessages[k].images[j].blob[2]]

\* C12: after the thread fetch, every attached image of a message comes from
\* a file of that message that has a download url and a MIME type starting
\* with "image/"; a file of any other MIME type gives no image and is never
\* downloaded; a message with one image/png file and one application/pdf file
\* has exactly one image, the PNG.
C12_ImageFilesOnly ==
    Fetched =>
        /\ Len(slackMessages) = Len(rawThread.messages)
        /\ \A k \in DOMAIN slackMessages :
              LET files == rawThread.messages[k].files
              IN /\ \A j \in DOMAIN slackMessages[k].images :
                        /\ slackMessages[k].images[j].mimeType \in ImageMimes
                        /\ ImageSources(k)[j] # ""
                        /\ \E i \in FilesAt(k, ImageSources(k)[j]) :
                              files[i].mimetype = slackMessages[k].images[j].mimeType
                 /\ \A i \in DOMAIN files :
                        files[i].mimetype \notin ImageMimes =>
                            /\ \A j \in DOMAIN fetched : fetched[j] # files[i].url
                            /\ \A j \in DOMAIN ImageSources(k) :
                                  ImageSources(k)[j] # files[i].url
                 /\ [i \in DOMAIN files |-> files[i].mimetype]
                        = <<"image/png", "application/pdf">>
                    /\ (\A i \in DOMAIN files : files[i].ok)
                    => /\ Len(slackMessages[k].images) = 1
                       /\ ImageSources(k) = <<files[1].url>>

\* a fetched thread with a message that has a PNG and a PDF attached, and a
\* message that has only a PDF attached
C12_Witness ==
    /\ Fetched
    /\ \E k \in DOMAIN slackMessages :
          /\ Len(rawThread.messages[k].files) = 2
          /\ rawThread.messages[k].files[2].mimetype = "application/pdf"
          /\ Len(slackMessages[k].images) = 1
    /\ \E k \in DOMAIN slackMessages :
          /\ Len(rawThread.messages[k].files) = 1
          /\ rawThread.messages[k].files[1].mimetype = "application/pdf"
          /\ Len(slackMessages[k].images) = 0

-----------------------------------------------------------------------------
(* C13 *)

\* an image file the platform client tries to download
IsImageFile(f) == f.url # "" /\ f.mimetype \in ImageMimes
\* an image file whose download succeeds
IsGoodImageFile(f) == IsImageFile(f) /\ f.ok

UrlsOf(files) == [i \in DOMAIN files |-> files[i].url]

\* the elements of a set of numbers, in increasing order
Sorted(S) ==
    [i \in 1..Cardinality(S) |->
        CHOOSE j \in S : Cardinality({x \in S : x <= j}) = i]

\* the place of the i-th text part among the parts of the request
TextIndex(i) ==
    CHOOSE p \in DOMAIN request.parts :
        /\ IsTextPart(request.parts[p])
        /\ Cardinality({q \in 1..p : IsTextPart(request.parts[q])}) = i

\* the parts between the text unit of message k and the next text unit
UnitImages(k) ==
    SubSeq(request.parts, TextIndex(k + 2) + 1, TextIndex(k + 3) - 1)

\* the images of message k whose download by the generation client succeeded
KeptImages(k) ==
    Sorted({j \in DOMAIN geminiMessages[k].images : <<k, j>> \notin imageFailures})

\* some image download of this invocation failed, in either client
SomeImageFailed ==
    \/ imageFailures # {}
    \/ Fetched /\ \E k \in DOMAIN rawThread.messages :
                    \E i \in DOMAIN rawThread.messages[k].files :
                        /\ IsImageFile(rawThread.messages[k].files[i])
                        /\ ~rawThread.messages[k].files[i].ok

\* C13: a failed image download aborts nothing.  In the thread fetch every
\* image file of every message is still downloaded, in order, each message
\* keeps its text and, in file order, the images whose download succeeded.
\* In the generation client the request still holds every message's text
\* unit followed by the images whose download succeeded, in order, and the
\* generation call is issued.  No failed download is the error the handler
\* catches: the pipeline stops only for another step's error.
C13_ImageFailureDropsOneImage ==
    /\ Fetched =>
          /\ fetched = Flatten([k \in DOMAIN rawThread.messages |->
                          UrlsOf(SelectSeq(rawThread.messages[k].files, IsImageFile))])
          /\ \A k \in DOMAIN slackMessages :
                /\ slackMessages[k].text = rawThread.messages[k].text
                /\ ImageSources(k) =
                      UrlsOf(SelectSeq(rawThread.messages[k].files, IsGoodImageFile))
    /\ request.kind = "parts" =>
          /\ Len(attempts) >= 1
          /\ Len(TextUnits(request)) = Len(geminiMessages) + 3
          /\ \A k \in DOMAIN geminiMessages :
                LET kept == KeptImages(k)
                    images == geminiMessages[k].images
                IN /\ request.parts[TextIndex(k + 2)].text[3] = slackMessages[k].text
                   /\ UnitImages(k) =
                         [i \in DOMAIN kept |->
                             InlinePart(Base64(<<"GET", ImageUrl(images[kept[i]])>>),
                                        images[kept[i]].mimeType)]
    /\ imageFailures # {} => request.kind = "parts"
    /\ error.origin \in {"none", "fetch", "botid", "convert", "generate", "post"}
    /\ (SomeImageFailed /\ outcome.state = "resolved") =>
          /\ Len(posted) = 1
          /\ posted[1] = ReplyCall(event, response)

\* the reply is posted for a thread in which a message lost its first image
\* in the thread fetch and the first of the two remaining ones in the
\* generation client, while the image of another message was kept
C13_Witness ==
    /\ outcome.state = "resolved"
    /\ \E k \in DOMAIN slackMessages :
          /\ Len(rawThread.messages[k].files) = 3
          /\ ~rawThread.messages[k].files[1].ok
          /\ ImageSources(k) = <<rawThread.messages[k].files[2].url,
                                 rawThread.messages[k].files[3].url>>
          /\ <<k, 1>> \in imageFailures
          /\ <<k, 2>> \notin imageFailures
    /\ \E k \in DOMAIN geminiMessages :
          /\ Len(geminiMessages[k].images) = 1
          /\ <<k, 1>> \notin imageFailures

-----------------------------------------------------------------------------
(* C14 *)

\* the number of text parts among the first p parts of the request
TextPartsUpTo(p) == Cardinality({q \in 1..p : IsTextPart(request.parts[q])})

\* the message whose unit part p belongs to: the text parts 1 and 2 are the
\* system prompt and the header, text part k + 2 opens the unit of message k
Owner(p) == TextPartsUpTo(p) - 2

\* the places of the image parts that follow the text of message k
ImagePlaces(k) ==
    Sorted({p \in DOMAIN request.parts :
               ~IsTextPart(request.parts[p]) /\ Owner(p) = k})

\* C14: in the parts handed to the model every image part stands in the unit
\* of its own message: after that message's text part and before the next
\* text part, in the order of the message's images; the text parts of the
\* messages follow the thread's order, and nothing but the cue of the bot's
\* turn follows the last message's unit.
C14_ImagesFollowTheirText ==
    request.kind = "parts" =>
        LET parts == request.parts
            n == Len(geminiMessages)
        IN /\ IsTextPart(parts[1]) /\ IsTextPart(parts[2])
           /\ IsTextPart(parts[Len(parts)])
           /\ TextPartsUpTo(Len(parts)) = n + 3
           /\ \A p \in DOMAIN parts :
                 IsTextPart(parts[p]) /\ Owner(p) \in 1..n =>
                     /\ parts[p].text[3] = slackMessages[Owner(p)].text
                     /\ parts[p].text[1] = LabelOf(Owner(p))
           /\ \A p \in DOMAIN parts :
                 ~IsTextPart(parts[p]) => Owner(p) \in 1..n
           /\ \A k \in 1..n :
                 LET places == ImagePlaces(k)
                     kept == KeptImages(k)
                 IN /\ Len(places) = Len(kept)
                    /\ \A i \in DOMAIN places :
                          /\ places[i] = TextIndex(k + 2) + i
                          /\ parts[places[i]].mimeType
                                = geminiMessages[k].images[kept[i]].mimeType

\* parts for a thread of three messages: the second has two images (a JPEG
\* and then a GIF), the third has one, and every download succeeded
C14_Witness ==
    /\ request.kind = "parts"
    /\ Len(geminiMessages) = 3
    /\ imageFailures = {}
    /\ Len(geminiMessages[1].images) = 0
    /\ [j \in DOMAIN geminiMessages[2].images |-> geminiMessages[2].images[j].mimeType]
          = <<"image/jpeg", "image/gif">>
    /\ Len(geminiMessages[3].images) = 1
    /\ Len(request.parts) = 9

-----------------------------------------------------------------------------
(* The earlier revision: GarconBot.handleAppMention (part_005) over the     *)
(* SlackService that keeps file references (slack.service.ts 242-511) and  *)
(* the GeminiService that downloads them (gemini.service.ts)               *)

PardonPrefix == "Pardon! I encountered an issue: "

\* the file filter of that fetchThreadMessages: references, no download
RECURSIVE FileRefs(_)
FileRefs(files) ==
    IF files = <<>> THEN <<>>
    ELSE LET f == Head(files)
             rest == FileRefs(Tail(files))
         IN IF f.url # "" /\ IsImageMime(f.mimetype)
            THEN <<[url |-> f.url, mimeType |-> f.mimetype,
                    name |-> Or(f.name, "image")]>> \o rest
            ELSE rest

SlackFileMessageOf(msg) ==
    [text |-> msg.text,
     user |-> Or(msg.user, Or(msg.bot_id, "unknown")),
     userName |-> Undefined,
     files |-> FileRefs(msg.files)]

\* fetchThreadMessages of that revision, after conversations.replies answered
FetchThreadFileMessages(raw, dir) ==
    IF ~raw.hasMessages THEN <<>>
    ELSE LET n == Len(raw.messages)
             messages == [k \in 1..n |-> SlackFileMessageOf(raw.messages[k])]
             uniqueUserIds ==
                 {id \in {messages[k].user : k \in 1..n} :
                     id # "unknown" /\ ~StartsWithB(id)}
             userInfoMap == GetUserInfoBatch(dir, uniqueUserIds)
         IN [k \in 1..n |->
                IF messages[k].user \in DOMAIN userInfoMap
                THEN [messages[k] EXCEPT !.userName =
                        Or(userInfoMap[messages[k].user].realName,
                           userInfoMap[messages[k].user].name)]
                ELSE messages[k]]

\* text.replace(/<@[A-Z0-9]+>/g, "").trim(), on the texts of the threads
CleanMessageText(text) ==
    IF text = "<@UBOT> one koshari" THEN "one koshari" ELSE text

\* SlackService.convertToAIMessages
ConvertToAIMessages(messages, bot) ==
    [k \in DOMAIN messages |->
        [role |-> RoleOf(messages[k].user, bot),
         content |-> CleanMessageText(messages[k].text),
         userName |-> messages[k].userName,
         images |-> [j \in DOMAIN messages[k].files |->
                        [url |-> messages[k].files[j].url,
                         mimeType |-> messages[k].files[j].mimeType]]]]

PardonCall(ev, e) ==
    PostCall(ev.channel, <<PardonPrefix, ErrorMessage(e)>>, ThreadTs(ev))

\* the catch block of that handler is entered: the notice post is issued
EmbeddedCatch(op, e, before) ==
    /\ error' = e
    /\ log' = log \o before \o <<Step(op, "err"), Step("notice", "call")>>
    /\ postCalls' = Append(postCalls, PardonCall(event, e))
    /\ pc' = "notifying"

\* GarconBot.start: the listener is started once initialize has resolved
EmbeddedReceive(ev) ==
    /\ initState = "ok"
    /\ Receive(ev)

\* the fetch returns; the bot id is read, the messages are converted and
\* generateResponse is called
EmbeddedFetchReturns ==
    /\ pc = "fetching"
    /\ slackMessages' = FetchThreadFileMessages(rawThread, directory)
    /\ IF GetBotUserId(botUserId).threw
       THEN /\ EmbeddedCatch("botid", Err(GetBotUserId(botUserId).value, "botid"),
                             <<Step("fetch", "ret")>>)
            /\ UNCHANGED <<localBotId, geminiMessages>>
       ELSE /\ localBotId' = GetBotUserId(botUserId).value
            /\ geminiMessages' = ConvertToAIMessages(slackMessages', localBotId')
            /\ log' = log \o <<Step("fetch", "ret"), Step("generate", "call")>>
            /\ pc' = "reading"
            /\ UNCHANGED <<error, postCalls>>
    /\ UNCHANGED <<fetchCall, fetched, imageFailures, otherVars, env, rawThread, directory,
                   botUserId, initState, event, idx, request, attempts, response,
                   postError, posted, outcome>>

EmbeddedFetchFails ==
    /\ pc = "fetching"
    /\ EmbeddedCatch("fetch", Err("conversations.replies failed", "fetch"), <<>>)
    /\ UNCHANGED <<fetchCall, fetched, imageFailures, otherVars, env, rawThread, directory,
                   botUserId, initState, localBotId, event, slackMessages,
                   geminiMessages, idx, request, attempts, response, postError,
                   posted, outcome>>

EmbeddedSystemPromptFails ==
    /\ pc = "reading"
    /\ EmbeddedCatch("generate", Err("ENOENT: system_prompt.txt", "generate"), <<>>)
    /\ UNCHANGED <<fetchCall, fetched, imageFailures, otherVars, env, rawThread, directory,
                   botUserId, initState, localBotId, event, slackMessages,
                   geminiMessages, idx, request, attempts, response, postError,
                   posted, outcome>>

EmbeddedGenerateFails(e) ==
    /\ pc = "generating"
    /\ attempts' = Settle(attempts, e, "")
    /\ EmbeddedCatch("generate", Err(e, "generate"), <<>>)
    /\ UNCHANGED <<fetchCall, fetched, imageFailures, otherVars, env, rawThread, directory,
                   botUserId, initState, localBotId, event, slackMessages,
                   geminiMessages, idx, request, response, postError, posted,
                   outcome>>

EmbeddedPostFails ==
    /\ pc = "posting"
    /\ EmbeddedCatch("post", Err("chat.postMessage failed", "post"), <<>>)
    /\ UNCHANGED <<fetchCall, fetched, imageFailures, otherVars, env, rawThread, directory,
                   botUserId, initState, localBotId, event, slackMessages,
                   geminiMessages, idx, request, attempts, response, postError,
                   posted, outcome>>

\* Mutant: the catch block of the embedded handler ends in throw error.
EmbeddedNoticeReturns_Rethrows ==
    /\ pc = "notifying"
    /\ posted' = Append(posted, postCalls[Len(postCalls)])
    /\ log' = Append(log, Step("notice", "ret"))
    /\ outcome' = [state |-> "rejected", thrown |-> error]
    /\ pc' = "done"
    /\ UNCHANGED <<fetchCall, fetched, imageFailures, otherVars, env, rawThread, directory,
                   botUserId, initState, localBotId, event, slackMessages,
                   geminiMessages, idx, request, attempts, response, error,
                   postError, postCalls>>

\* the notice post returns: the catch block ends and the handler resolves
EmbeddedNoticeReturns ==
    /\ pc = "notifying"
    /\ posted' = Append(posted, postCalls[Len(postCalls)])
    /\ log' = Append(log, Step("notice", "ret"))
    /\ outcome' = [state |-> "resolved", thrown |-> NoError]
    /\ pc' = "done"
    /\ UNCHANGED <<fetchCall, fetched, imageFailures, otherVars, env, rawThread, directory,
                   botUserId, initState, localBotId, event, slackMessages,
                   geminiMessages, idx, request, attempts, response, error,
                   postError, postCalls>>

\* the notice post throws inside the catch block: the handler rejects with it
EmbeddedNoticeFails ==
    /\ pc = "notifying"
    /\ postError' = Err("chat.postMessage failed", "notice")
    /\ log' = Append(log, Step("notice", "err"))
    /\ outcome' = [state |-> "rejected",
                   thrown |-> Err("chat.postMessage failed", "notice")]
    /\ pc' = "done"
    /\ UNCHANGED <<fetchCall, fetched, imageFailures, otherVars, env, rawThread, directory,
                   botUserId, initState, localBotId, event, slackMessages,
                   geminiMessages, idx, request, attempts, response, error,
                   posted, postCalls>>

EmbeddedNext ==
    \/ InitializeOk
    \/ InitializeFails
    \/ \E ev \in Events : EmbeddedReceive(ev)
    \/ EmbeddedFetchReturns
    \/ EmbeddedFetchFails
    \/ SystemPromptRead
    \/ EmbeddedSystemPromptFails
    \/ \E text \in ResponseTexts : GenerateReturns(text)
    \/ \E e \in GenerationErrors : EmbeddedGenerateFails(e)
    \/ PostReturns
    \/ EmbeddedPostFails
    \/ EmbeddedNoticeReturns
    \/ EmbeddedNoticeFails

EmbeddedSpec == Init /\ [][EmbeddedNext]_vars

-----------------------------------------------------------------------------
(* C15 *)

\* an image in inline form: encoded bytes and a MIME type, no reference
IsInlineImage(image) == "data" \in DOMAIN image /\ "url" \notin DOMAIN image

\* an image that is a remote reference: a url and a MIME type, no bytes
IsImageReference(image) == "url" \in DOMAIN image /\ "data" \notin DOMAIN image

\* generateResponse has been called with geminiMessages
GenerationCalled == Calls("generate") # {}

\* C15 as stated: when the generation call is issued, every image of the
\* messages handed to the generation client is in inline form.
C15_Original ==
    GenerationCalled =>
        \A k \in DOMAIN geminiMessages :
            \A j \in DOMAIN geminiMessages[k].images :
                IsInlineImage(geminiMessages[k].images[j])

\* C15, amended: convertToAIMessages hands every image to the generation
\* client as a reference (url and MIME type); the generation client resolves
\* the references itself, so that every image part of the request passed to
\* model.generateContent is inline: the encoded bytes downloaded from the url
\* of an image of that message, with that image's MIME type.  A reference
\* whose download fails leaves no part, and a request without images is text.
C15_ResolvedBeforeProviderCall ==
    /\ GenerationCalled =>
          \A k \in DOMAIN geminiMessages :
              \A j \in DOMAIN geminiMessages[k].images :
                  /\ IsImageReference(geminiMessages[k].images[j])
                  /\ geminiMessages[k].images[j].url = slackMessages[k].files[j].url
    /\ request.kind = "parts" =>
          /\ \A p \in DOMAIN request.parts :
                ~IsTextPart(request.parts[p]) =>
                    /\ request.parts[p].kind = "inlineData"
                    /\ Owner(p) \in DOMAIN geminiMessages
                    /\ \E j \in DOMAIN geminiMessages[Owner(p)].images :
                          /\ <<Owner(p), j>> \notin imageFailures
                          /\ request.parts[p] =
                                InlinePart(Base64(<<"GET", geminiMessages[Owner(p)].images[j].url>>),
                                           geminiMessages[Owner(p)].images[j].mimeType)
          /\ Cardinality({p \in DOMAIN request.parts : ~IsTextPart(request.parts[p])})
                = Cardinality(ImagePositions(geminiMessages) \ imageFailures)
    /\ request.kind = "prompt" => ImagePositions(geminiMessages) = {}

\* the generation client was handed three references in one message and the
\* request holds the bytes of the two whose download succeeded
C15_Witness ==
    /\ request.kind = "parts"
    /\ \E k \in DOMAIN geminiMessages :
          /\ [j \in DOMAIN geminiMessages[k].images |-> geminiMessages[k].images[j].url]
                = <<"f2", "f4", "f6">>
          /\ imageFailures = {<<k, 1>>}
          /\ UnitImages(k) = <<InlinePart(Base64(<<"GET", "f4">>), "image/jpeg"),
                               InlinePart(Base64(<<"GET", "f6">>), "image/gif")>>

-----------------------------------------------------------------------------
(* C16 *)

\* the handler read the bot id while it was unset: getBotUserId threw
BotIdReadUnset == \E k \in DOMAIN log : log[k] = Step("botid", "err")

\* C16: no handler invocation reaches the read of the bot id (line 47, after
\* the thread fetch returned) before initialize has succeeded, that is while
\* the cached id is unset; also when the mention arrives while the initialize
\* call of the module load is in flight or has failed.
C16_BotIdResolvedFirst ==
    Returns("fetch") # {} =>
        /\ initState = "ok"
        /\ botUserId # Null
        /\ ~BotIdReadUnset

-----------------------------------------------------------------------------
(* The long-running deployment: main() (logger.ts 38-63) starts GarconBot   *)
(* (part_004), whose listener calls EventHandlerService.handleAppMention   *)

handlerVars ==
    <<localBotId, event, pc, slackMessages, geminiMessages, idx, request, attempts,
      response, error, postError, postCalls, posted, outcome, log, fetchCall,
      fetched, imageFailures>>

\* Mutant: a failed initialize is only logged and start goes on.
StartInitializeFails_Logged ==
    /\ mainPc = "start"
    /\ initState = "pending"
    /\ initState' = "failed"
    /\ mainPc' = "starting"
    /\ UNCHANGED <<env, rawThread, directory, botUserId, listening, exitCode,
                   handlerVars, calls, receiverVars, threadVars, concVars, promptVars, bootVars, retryVars, sqsVars>>

\* GarconBot.start: await this.slackService.initialize() resolves
StartInitializeOk ==
    /\ mainPc = "start"
    /\ initState = "pending"
    /\ botUserId' = BotId
    /\ initState' = "ok"
    /\ mainPc' = "starting"
    /\ UNCHANGED <<env, rawThread, directory, listening, exitCode, handlerVars, calls, receiverVars, threadVars, concVars, promptVars, bootVars, retryVars, sqsVars>>

\* initialize rejects: start rejects, main's catch logs and calls exit(1)
StartInitializeFails ==
    /\ mainPc = "start"
    /\ initState = "pending"
    /\ initState' = "failed"
    /\ mainPc' = "exited"
    /\ exitCode' = <<1>>
    /\ UNCHANGED <<env, rawThread, directory, botUserId, listening, handlerVars, calls, receiverVars, threadVars, concVars, promptVars, bootVars, retryVars, sqsVars>>

\* await this.app.start(port) resolves: the listener runs, main registers the
\* signal handlers and returns
AppStartReturns ==
    /\ mainPc = "starting"
    /\ listening' = TRUE
    /\ mainPc' = "running"
    /\ UNCHANGED <<env, rawThread, directory, botUserId, initState, exitCode,
                   handlerVars, calls, receiverVars, threadVars, concVars, promptVars, bootVars, retryVars, sqsVars>>

\* app.start rejects: main's catch logs and calls exit(1)
AppStartFails ==
    /\ mainPc = "starting"
    /\ mainPc' = "exited"
    /\ exitCode' = <<1>>
    /\ UNCHANGED <<env, rawThread, directory, botUserId, initState, listening,
                   handlerVars, calls, receiverVars, threadVars, concVars, promptVars, bootVars, retryVars, sqsVars>>

\* the listener delivers an app_mention event to the handler
BotReceive(ev) ==
    /\ listening
    /\ exitCode = <<>>
    /\ Receive(ev)

BotNext ==
    \/ StartInitializeOk
    \/ StartInitializeFails
    \/ AppStartReturns
    \/ AppStartFails
    \/ \E ev \in Events : BotReceive(ev)
    \/ HandlerStep

BotSpec == Init /\ [][BotNext]_vars

-----------------------------------------------------------------------------
(* C17 *)

\* a mention has been handed to the handler
MentionHandled == pc # "idle" \/ log # <<>>

\* C17: in the long-running deployment the listener runs only after
\* initialize has succeeded, and a mention is handled only while it runs; if
\* initialize has failed the listener is not started, no mention is handled,
\* and the process has exited with a non-zero status.
C17_ListenAfterInitialize ==
    /\ listening => initState = "ok" /\ botUserId = BotId
    /\ mainPc \in {"starting", "running"} => initState = "ok"
    /\ MentionHandled => listening
    /\ initState = "failed" =>
          /\ ~listening
          /\ ~MentionHandled
          /\ mainPc = "exited"
          /\ Len(exitCode) = 1 /\ exitCode[1] # 0
    /\ exitCode # <<>> => ~listening /\ ~MentionHandled

\* initialize failed: the process is gone with status 1, nothing listens
C17_Witness ==
    /\ initState = "failed"
    /\ exitCode = <<1>>
    /\ ~listening
    /\ mainPc = "exited"

-----------------------------------------------------------------------------
(* C18 *)

\* C18: the thread of an invocation is event.thread_ts when present and
\* event.ts otherwise; the thread fetch, the reply post and the notice post
\* of the invocation all use that thread and the channel of the event, so
\* that nothing is posted outside the thread that was fetched.
C18_OneThreadPerInvocation ==
    pc # "idle" =>
        /\ fetchCall.channel = event.channel
        /\ event.thread_ts # "" => fetchCall.ts = event.thread_ts
        /\ event.thread_ts = "" => fetchCall.ts = event.ts
        /\ \A i \in DOMAIN postCalls :
              /\ postCalls[i].channel = fetchCall.channel
              /\ postCalls[i].thread_ts = fetchCall.ts
        /\ \A i \in DOMAIN posted :
              /\ posted[i].channel = fetchCall.channel
              /\ posted[i].thread_ts = fetchCall.ts

\* a mention inside the thread 099.0: the reply post failed and the notice
\* was posted, both to the thread that was fetched
C18_Witness ==
    /\ event.thread_ts = "099.0"
    /\ event.ts = "100.1"
    /\ fetchCall = [channel |-> "C2", ts |-> "099.0"]
    /\ Len(postCalls) = 2
    /\ IsReply(postCalls[1]) /\ IsNotice(postCalls[2])
    /\ posted = <<postCalls[2]>>

-----------------------------------------------------------------------------
(* The Web API calls of SlackService (slack.service.ts 1-240): each method  *)
(* awaits its client call once, with no retry wrapper around it            *)

ApiOps == {"auth.test", "conversations.replies", "users.info", "image fetch",
           "chat.postMessage"}

\* how one attempt of a call can fail
TransientFailure == "transient"
PermanentFailure == "permanent"
ApiFailures == {TransientFailure, PermanentFailure}

\* one call: the results of its attempts in order ("ok" or a failure), and
\* how the awaited call settled for the method that made it
ApiCall(op, tries, settled) ==
    [op |-> op, attempts |-> tries, settled |-> settled]

LastCall == calls[Len(calls)]
CallPending == calls # <<>> /\ LastCall.settled = "pending"

\* a method of the service issues its client call: the first attempt starts
IssueCall(op) ==
    /\ ~CallPending
    /\ Len(calls) < MaxCalls
    /\ calls' = Append(calls, ApiCall(op, <<>>, "pending"))
    /\ UNCHANGED <<env, rawThread, directory, botUserId, initState, mainVars,
                   handlerVars, receiverVars, threadVars, concVars, promptVars, bootVars, retryVars, sqsVars>>

\* the attempt succeeds: the await resolves with its result
CallResolves ==
    /\ CallPending
    /\ calls' = [calls EXCEPT ![Len(calls)] =
                    ApiCall(LastCall.op, Append(LastCall.attempts, "ok"), "resolved")]
    /\ UNCHANGED <<env, rawThread, directory, botUserId, initState, mainVars,
                   handlerVars, receiverVars, threadVars, concVars, promptVars, bootVars, retryVars, sqsVars>>

\* the attempt fails: the await rejects and the error leaves the client call
\* (initialize and fetchThreadMessages rethrow it, fetchImageAsBlob throws,
\* getUserInfo logs it and returns null, postMessage lets it through)
CallRejects(failure) ==
    /\ CallPending
    /\ calls' = [calls EXCEPT ![Len(calls)] =
                    ApiCall(LastCall.op, Append(LastCall.attempts, failure), "rejected")]
    /\ UNCHANGED <<env, rawThread, directory, botUserId, initState, mainVars,
                   handlerVars, receiverVars, threadVars, concVars, promptVars, bootVars, retryVars, sqsVars>>

ApiNext ==
    \/ \E op \in ApiOps : IssueCall(op)
    \/ CallResolves
    \/ \E failure \in ApiFailures : CallRejects(failure)

\* no mention is handled meanwhile: the inputs of the handler are fixed
NoMention ==
    /\ env = EnvOf("", <<>>)
    /\ rawThread = [hasMessages |-> FALSE, messages |-> <<>>]
    /\ directory = DirectoryOk

ApiInit == Init /\ NoMention

ApiSpec == ApiInit /\ [][ApiNext]_vars

-----------------------------------------------------------------------------
(* C19 *)

\* C19: a Web API call that fails transiently is retried, at most 3 times: a
\* call has at most 4 attempts, no attempt follows a success, a success
\* resolves the call, and a call rejects for transient failures only when
\* the first attempt and its 3 retries have all failed.
C19_TransientFailureRetried ==
    \A i \in DOMAIN calls :
        LET c == calls[i]
            n == Len(c.attempts)
        IN /\ n <= 4
           /\ \A a \in 1..n : c.attempts[a] = "ok" => a = n /\ c.settled = "resolved"
           /\ c.settled = "resolved" => n >= 1 /\ c.attempts[n] = "ok"
           /\ c.settled = "rejected" => n >= 1 /\ c.attempts[n] # "ok"
           /\ (c.settled = "rejected"
                  /\ \A a \in 1..n : c.attempts[a] = TransientFailure) => n = 4

-----------------------------------------------------------------------------
(* The receiver Lambda (lambda-receiver.ts): the app_mention listener sends *)
(* the event to the queue; the handler returns what the Bolt receiver      *)
(* answers once the event has been processed                               *)

\* the events the platform delivers: mentions, and an event of another type
ReceiverEvents ==
    {[type |-> "app_mention", channel |-> ev.channel, ts |-> ev.ts,
      thread_ts |-> ev.thread_ts] : ev \in Events}
        \cup {[type |-> "reaction_added", channel |-> "C1", ts |-> "100.2",
               thread_ts |-> ""]}

\* JSON.stringify(event)
JsonStringify(ev) == <<"json", ev>>

\* one invocation of the handler: the event delivered, whether sendMessage
\* has resolved for it, and the status answered (0 while it is processed)
Delivery(ev, sent, status) == [event |-> ev, sent |-> sent, status |-> status]

LastDelivery == deliveries[Len(deliveries)]
Processing == deliveries # <<>> /\ LastDelivery.status = 0

\* the handler is invoked with a delivery; for an app_mention the listener
\* runs and awaits sqs.sendMessage, any other event has no listener and is
\* answered at once
Deliver(ev) ==
    /\ ~Processing
    /\ Len(deliveries) < MaxDeliveries
    /\ deliveries' = Append(deliveries,
                            Delivery(ev, FALSE, IF ev.type = "app_mention" THEN 0 ELSE 200))
    /\ UNCHANGED <<env, rawThread, directory, botUserId, initState, mainVars, calls,
                   queue, handlerVars, threadVars, concVars, promptVars, bootVars, retryVars, sqsVars>>

\* Mutant: a failed send is caught in the listener and the delivery answered 200.
SendMessageFails_Swallowed ==
    /\ Processing
    /\ deliveries' = [deliveries EXCEPT ![Len(deliveries)] =
                         Delivery(LastDelivery.event, FALSE, 200)]
    /\ UNCHANGED <<env, rawThread, directory, botUserId, initState, mainVars, calls,
                   queue, handlerVars, threadVars, concVars, promptVars, bootVars, retryVars, sqsVars>>

\* sendMessage resolves: the listener returns and the delivery is answered 200
SendMessageReturns ==
    /\ Processing
    /\ queue' = Append(queue, JsonStringify(LastDelivery.event))
    /\ deliveries' = [deliveries EXCEPT ![Len(deliveries)] =
                         Delivery(LastDelivery.event, TRUE, 200)]
    /\ UNCHANGED <<env, rawThread, directory, botUserId, initState, mainVars, calls,
                   handlerVars, threadVars, concVars, promptVars, bootVars, retryVars, sqsVars>>

\* sendMessage rejects: the listener rejects, the receiver answers 500 and the
\* platform will deliver the event again
SendMessageFails ==
    /\ Processing
    /\ deliveries' = [deliveries EXCEPT ![Len(deliveries)] =
                         Delivery(LastDelivery.event, FALSE, 500)]
    /\ UNCHANGED <<env, rawThread, directory, botUserId, initState, mainVars, calls,
                   queue, handlerVars, threadVars, concVars, promptVars, bootVars, retryVars, sqsVars>>

ReceiverNext ==
    \/ \E ev \in ReceiverEvents : Deliver(ev)
    \/ SendMessageReturns
    \/ SendMessageFails

ReceiverSpec == ApiInit /\ [][ReceiverNext]_vars

-----------------------------------------------------------------------------
(* C20 *)

IsSent(d) == d.sent

\* C20: the receiver only enqueues.  The queue holds, in order, exactly one
\* message per app_mention delivery whose send has completed, its body the
\* serialized event; nothing is fetched, generated or posted; a delivery is
\* answered 200 only when its message is in the queue (or it is no mention),
\* it is unanswered while the send is pending, and a failed send is answered
\* 500 with nothing enqueued.
C20_ReceiverOnlyEnqueues ==
    /\ queue = [i \in DOMAIN SelectSeq(deliveries, IsSent) |->
                   JsonStringify(SelectSeq(deliveries, IsSent)[i].event)]
    /\ pc = "idle" /\ log = <<>> /\ fetchCall.channel = ""
    /\ attempts = <<>> /\ request = NoRequest /\ postCalls = <<>> /\ posted = <<>>
    /\ \A i \in DOMAIN deliveries :
          LET d == deliveries[i]
          IN /\ d.sent => d.event.type = "app_mention" /\ d.status = 200
             /\ d.status = 200 /\ d.event.type = "app_mention" => d.sent
             /\ d.status = 500 => ~d.sent /\ d.event.type = "app_mention"
             /\ d.status = 0 => ~d.sent /\ i = Len(deliveries)
             /\ d.status \in {0, 200, 500}

\* three deliveries of the same mention: the first send failed and was
\* answered 500, the second was enqueued, the third is being sent
C20_Witness ==
    /\ Len(deliveries) = 3
    /\ deliveries[1].event = deliveries[2].event
    /\ deliveries[1].status = 500
    /\ deliveries[2].status = 200
    /\ deliveries[3].status = 0
    /\ queue = <<JsonStringify(deliveries[2].event)>>

-----------------------------------------------------------------------------
(* SlackService.fetchThreadMessages step by step (slack.service.ts 120-202): *)
(* conversations.replies answers, the images are downloaded, one users.info *)
(* call per unique user id is issued, the calls settle in any order, and    *)
(* the names are applied once Promise.all has resolved                      *)

\* Mutant: every author id is looked up.
IsUserId_Any(id) == TRUE

\* the filter of uniqueUserIds
IsUserId(id) == id # "unknown" /\ ~StartsWithB(id)

\* [...new Set(s)]: the elements of s in the order of their first occurrence
RECURSIVE SetOrder(_)
SetOrder(s) ==
    IF s = <<>> THEN <<>>
    ELSE LET r == SetOrder(SubSeq(s, 1, Len(s) - 1))
             x == s[Len(s)]
         IN IF \E i \in DOMAIN r : r[i] = x THEN r ELSE Append(r, x)

\* the messages array when the for loop over result.messages is over
BuiltMessages(raw) == [k \in DOMAIN raw.messages |-> SlackMessageOf(raw.messages[k])]

UniqueUserIds(messages) ==
    SetOrder(SelectSeq([k \in DOMAIN messages |-> messages[k].user], IsUserId))

\* messages.forEach: the name of the map entry, where there is one
ApplyNames(messages, map) ==
    [k \in DOMAIN messages |->
        IF messages[k].user \in DOMAIN map
        THEN [messages[k] EXCEPT !.userName =
                Or(map[messages[k].user].realName, map[messages[k].user].name)]
        ELSE messages[k]]

\* userMap.set(userId, {name, realName})
MapSet(map, id, info) ==
    [x \in DOMAIN map \cup {id} |->
        IF x = id THEN [name |-> info.name, realName |-> info.realName] ELSE map[x]]

Range(s) == {s[i] : i \in DOMAIN s}
PendingLookups == Range(lookupCalls) \ Range(lookupsSettled)

\* conversations.replies is awaited: by the handler's call, or by a direct one
AwaitingReplies == fetchPc = "called" \/ (pc = "fetching" /\ fetchPc = "idle")

\* Mutant: no early return when result.messages is missing.
RepliesReturn_Unguarded ==
    /\ AwaitingReplies
    /\ lookupsSettled' = <<>>
    /\ userMap' = <<>>
    /\ fetched' = FetchedUrls(rawThread)
    /\ lookupCalls' = UniqueUserIds(BuiltMessages(rawThread))
    /\ fetchPc' = "lookups"
    /\ UNCHANGED <<env, rawThread, directory, botUserId, initState, mainVars, calls,
                   receiverVars, localBotId, event, pc, slackMessages, geminiMessages,
                   idx, request, attempts, response, error, postError, postCalls,
                   posted, outcome, log, fetchCall, imageFailures, fetchResults, concVars, promptVars, bootVars, retryVars, sqsVars>>

\* lines 126-186: conversations.replies resolves.  Without messages the call
\* returns []; otherwise the images are downloaded and the lookups issued.
RepliesReturn ==
    /\ AwaitingReplies
    /\ lookupsSettled' = <<>>
    /\ userMap' = <<>>
    /\ IF ~rawThread.hasMessages
       THEN /\ fetched' = <<>>
            /\ lookupCalls' = <<>>
            /\ fetchResults' = Append(fetchResults, <<>>)
            /\ fetchPc' = "returned"
       ELSE /\ fetched' = FetchedUrls(rawThread)
            /\ lookupCalls' = UniqueUserIds(BuiltMessages(rawThread))
            /\ fetchPc' = "lookups"
            /\ UNCHANGED fetchResults
    /\ UNCHANGED <<env, rawThread, directory, botUserId, initState, mainVars, calls,
                   receiverVars, localBotId, event, pc, slackMessages, geminiMessages,
                   idx, request, attempts, response, error, postError, postCalls,
                   posted, outcome, log, fetchCall, imageFailures, concVars, promptVars, bootVars, retryVars, sqsVars>>

\* conversations.replies rejects: fetchThreadMessages rejects
RepliesFail ==
    /\ AwaitingReplies
    /\ fetchPc' = "threw"
    /\ UNCHANGED <<env, rawThread, directory, botUserId, initState, mainVars, calls,
                   receiverVars, handlerVars, lookupCalls, lookupsSettled, userMap,
                   fetchResults, concVars, promptVars, bootVars, retryVars, sqsVars>>

\* Mutant: a failed lookup rejects the batch.
LookupSettles_Rejects(id) ==
    /\ fetchPc = "lookups"
    /\ id \in PendingLookups
    /\ lookupsSettled' = Append(lookupsSettled, id)
    /\ IF GetUserInfo(directory, id).found
       THEN /\ userMap' = MapSet(userMap, id, GetUserInfo(directory, id))
            /\ UNCHANGED fetchPc
       ELSE /\ fetchPc' = "threw"
            /\ UNCHANGED userMap
    /\ UNCHANGED <<env, rawThread, directory, botUserId, initState, mainVars, calls,
                   receiverVars, handlerVars, lookupCalls, fetchResults, concVars, promptVars, bootVars, retryVars, sqsVars>>

\* lines 62-80, 97-105: one users.info call settles; getUserInfo gives the
\* user or null, and the callback sets the map entry when it is a user
LookupSettles(id) ==
    /\ fetchPc = "lookups"
    /\ id \in PendingLookups
    /\ lookupsSettled' = Append(lookupsSettled, id)
    /\ userMap' = IF GetUserInfo(directory, id).found
                  THEN MapSet(userMap, id, GetUserInfo(directory, id))
                  ELSE userMap
    /\ UNCHANGED <<env, rawThread, directory, botUserId, initState, mainVars, calls,
                   receiverVars, handlerVars, fetchPc, lookupCalls, fetchResults, concVars, promptVars, bootVars, retryVars, sqsVars>>

\* Mutant: the messages array is a field of the service, not a local.
NamesApplied_Accumulates ==
    /\ fetchPc = "lookups"
    /\ PendingLookups = {}
    /\ fetchResults' =
          Append(fetchResults,
                 (IF fetchResults = <<>> THEN <<>> ELSE fetchResults[Len(fetchResults)])
                     \o ApplyNames(BuiltMessages(rawThread), userMap))
    /\ fetchPc' = "returned"
    /\ UNCHANGED <<env, rawThread, directory, botUserId, initState, mainVars, calls,
                   receiverVars, handlerVars, lookupCalls, lookupsSettled, userMap,
                   concVars, promptVars, bootVars, retryVars, sqsVars>>

\* Mutant: the names are applied as soon as one lookup has settled.
NamesApplied_Early ==
    /\ fetchPc = "lookups"
    /\ lookupsSettled # <<>> \/ lookupCalls = <<>>
    /\ fetchResults' = Append(fetchResults, ApplyNames(BuiltMessages(rawThread), userMap))
    /\ fetchPc' = "returned"
    /\ UNCHANGED <<env, rawThread, directory, botUserId, initState, mainVars, calls,
                   receiverVars, handlerVars, lookupCalls, lookupsSettled, userMap, concVars, promptVars, bootVars, retryVars, sqsVars>>

\* lines 96-201: Promise.all resolves once every lookup has settled; the names
\* are applied and the messages returned
NamesApplied ==
    /\ fetchPc = "lookups"
    /\ PendingLookups = {}
    /\ fetchResults' = Append(fetchResults, ApplyNames(BuiltMessages(rawThread), userMap))
    /\ fetchPc' = "returned"
    /\ UNCHANGED <<env, rawThread, directory, botUserId, initState, mainVars, calls,
                   receiverVars, handlerVars, lookupCalls, lookupsSettled, userMap, concVars, promptVars, bootVars, retryVars, sqsVars>>

\* event-handler.service.ts 37-48: the awaited fetch has returned; the bot id
\* is read, which may throw
ThreadFetchReturns ==
    /\ pc = "fetching"
    /\ fetchPc = "returned"
    /\ slackMessages' = fetchResults[Len(fetchResults)]
    /\ IF GetBotUserId(botUserId).threw
       THEN /\ EnterCatch("botid", Err(GetBotUserId(botUserId).value, "botid"),
                          <<Step("fetch", "ret")>>)
            /\ UNCHANGED <<localBotId, idx>>
       ELSE /\ localBotId' = GetBotUserId(botUserId).value
            /\ idx' = 1
            /\ log' = Append(log, Step("fetch", "ret"))
            /\ pc' = "assembling"
            /\ UNCHANGED <<error, postCalls>>
    /\ UNCHANGED <<fetchCall, fetched, imageFailures, otherVars, env, rawThread,
                   directory, botUserId, initState, event, geminiMessages, request,
                   attempts, response, postError, posted, outcome>>

\* the awaited fetch has thrown
ThreadFetchFails ==
    /\ pc = "fetching"
    /\ fetchPc = "threw"
    /\ EnterCatch("fetch", Err("conversations.replies failed", "fetch"), <<>>)
    /\ UNCHANGED <<fetchCall, fetched, imageFailures, otherVars, env, rawThread,
                   directory, botUserId, initState, localBotId, event, slackMessages,
                   geminiMessages, idx, request, attempts, response, postError,
                   posted, outcome>>

ThreadNext ==
    \/ InitializeOk
    \/ InitializeFails
    \/ \E ev \in Events : Receive(ev)
    \/ RepliesReturn
    \/ RepliesFail
    \/ \E id \in Range(lookupCalls) : LookupSettles(id)
    \/ NamesApplied
    \/ ThreadFetchReturns
    \/ ThreadFetchFails
    \/ AssembleNext
    \/ ConvertReturns
    \/ ConvertFails
    \/ SystemPromptRead
    \/ SystemPromptFails
    \/ \E text \in ResponseTexts : GenerateReturns(text)
    \/ \E e \in GenerationErrors : GenerateFails(e)
    \/ PostReturns
    \/ PostFails
    \/ NoticeReturns
    \/ NoticeFails

ThreadSpec == Init /\ [][ThreadNext]_vars

-----------------------------------------------------------------------------
(* C21 *)

LookupFailed(id) == directory[id].kind = "error"

\* C21: a failed user lookup is swallowed.  fetchThreadMessages rejects only
\* when conversations.replies did (never once lookups are issued); a settled
\* id whose lookup failed is absent from the map and one whose lookup
\* succeeded is present with its names; the returned messages of a failed id
\* carry no name; and the handler does not enter its catch because of it.
C21_LookupFailureSwallowed ==
    /\ fetchPc = "threw" => lookupCalls = <<>> /\ lookupsSettled = <<>>
    /\ error.origin = "fetch" => fetchPc = "threw"
    /\ \A id \in Range(lookupsSettled) :
          IF LookupFailed(id)
          THEN id \notin DOMAIN userMap
          ELSE /\ id \in DOMAIN userMap
               /\ userMap[id].name = Or(directory[id].name, "unknown")
               /\ userMap[id].realName =
                      Or(directory[id].real_name, Or(directory[id].name, "Unknown User"))
    /\ fetchPc = "returned" /\ rawThread.hasMessages =>
          LET result == fetchResults[Len(fetchResults)]
          IN /\ Len(result) = Len(rawThread.messages)
             /\ \A k \in DOMAIN result :
                   result[k].user \in DOMAIN directory =>
                       IF LookupFailed(result[k].user)
                       THEN result[k].userName = Undefined
                       ELSE result[k].userName # Undefined

\* the lookup of U1 failed and that of U2 succeeded, and generation is called
C21_Witness ==
    /\ LookupFailed("U1")
    /\ Range(lookupsSettled) = {"U1", "U2"}
    /\ DOMAIN userMap = {"U2"}
    /\ GenerationCalled

-----------------------------------------------------------------------------
(* C22 *)

LookupsIssued == rawThread.hasMessages /\ fetchPc \in {"lookups", "returned"}

AuthorIds == {SlackMessageOf(rawThread.messages[k]).user : k \in DOMAIN rawThread.messages}

\* the lookups are all in flight before one settles, the names are applied
\* only when all have settled, and map and result are functions of the thread
\* and of the answers alone, whatever the order of settling
BatchAwaited ==
    /\ fetchPc = "lookups" => fetchResults = <<>>
    /\ Range(lookupsSettled) \subseteq Range(lookupCalls)
    /\ Distinct(lookupsSettled)
    /\ fetchPc = "returned" =>
          /\ PendingLookups = {}
          /\ DOMAIN userMap = {id \in Range(lookupCalls) : ~LookupFailed(id)}
          /\ \A id \in DOMAIN userMap : userMap[id] = GetUserInfoBatch(directory, {id})[id]
          /\ fetchResults[Len(fetchResults)] = FetchThreadMessages(rawThread, directory)

\* C22 as stated: one lookup per distinct author id of the thread.
C22_Original ==
    LookupsIssued =>
        /\ Distinct(lookupCalls)
        /\ Range(lookupCalls) = AuthorIds
        /\ BatchAwaited

\* C22 (amended): one users.info lookup is issued per distinct author id that
\* is a user id (not "unknown", not starting with "B"), all before any
\* settles; the names are applied only after every lookup has settled; map
\* and labels do not depend on the order of settling.
C22_OneLookupPerUserId ==
    LookupsIssued =>
        /\ Distinct(lookupCalls)
        /\ Range(lookupCalls) = {id \in AuthorIds : IsUserId(id)}
        /\ BatchAwaited

\* a thread of two users and an integration: the lookups were issued for U1
\* then U2 and settled in the other order
C22_Witness ==
    /\ fetchPc = "returned"
    /\ AuthorIds = {"U1", "U2", "B1"}
    /\ lookupCalls = <<"U1", "U2">>
    /\ lookupsSettled = <<"U2", "U1">>

-----------------------------------------------------------------------------
(* C23 *)

\* C23: when conversations.replies reports no messages, fetchThreadMessages
\* returns the empty list at once: it never waits for lookups, no image is
\* downloaded, no users.info call is issued, every list returned is empty and
\* so is the list the handler receives.
C23_NoMessagesEmptyList ==
    ~rawThread.hasMessages =>
        /\ fetchPc # "lookups"
        /\ fetched = <<>>
        /\ lookupCalls = <<>> /\ lookupsSettled = <<>> /\ DOMAIN userMap = {}
        /\ \A i \in DOMAIN fetchResults : fetchResults[i] = <<>>
        /\ fetchPc = "returned" => Len(fetchResults) = 1
        /\ slackMessages = <<>>

\* the platform reported no messages and the handler's fetch has returned
C23_Witness ==
    /\ ~rawThread.hasMessages
    /\ fetchPc = "returned"
    /\ fetchResults = <<(<<>>)>>
    /\ Returns("fetch") # {}

-----------------------------------------------------------------------------
(* Handler invocations in flight together: handleAppMention keeps what it   *)
(* works on in locals (event-handler.service.ts 34-85); the services it     *)
(* calls share the cached bot id alone (slack.service.ts 26)                *)

\* what conversations.replies answers for a channel and thread; each thread
\* here holds at most one message with images, so the handler's loop awaits
\* convertBlobsToBase64 at most once
ThreadOf(channel, ts) ==
    IF channel = "C1"
    THEN [hasMessages |-> TRUE,
          messages |-> <<RawMsg("U1", "", "two falafel", <<>>),
                         RawMsg("U1", "", "the receipt",
                                <<File("f1", "image/png", TRUE),
                                  File("f5", "application/pdf", TRUE)>>)>>]
    ELSE [hasMessages |-> TRUE,
          messages |-> <<RawMsg("U2", "", "<@UBOT> one koshari",
                                <<File("f3", "application/pdf", TRUE)>>),
                         RawMsg(BotId, "", "on it", <<>>)>>]

\* the text the provider gives for a request
Answer(req) == <<"answer to", req>>

\* lines 50-68: the geminiMessages of a thread
AssembleAll(messages, bot) ==
    [k \in DOMAIN messages |->
        GeminiMessage(messages[k], bot, ConvertBlobsToBase64(messages[k].images))]

\* the awaits of an invocation that can throw, and what they throw
ConcFailure(at) ==
    CASE at = "fetching"   -> Err("conversations.replies failed", "fetch")
      [] at = "converting" -> Err("arrayBuffer failed", "convert")
      [] at = "reading"    -> Err("ENOENT: system_prompt.txt", "generate")
      [] at = "generating" -> Err(ErrTransient, "generate")
      [] OTHER             -> Err("chat.postMessage failed", "post")

\* the catch block of invocation i up to its await: the notice post is issued
ConcCatch(i, e) ==
    [inv[i] EXCEPT !.error = e, !.post = NoticeCall(inv[i].event, e), !.pc = "notifying"]

\* Mutant: the handler keeps the event in a field of the service.
ConcReceive_SharedEvent(i, ev) ==
    /\ inv[i].pc = "idle"
    /\ \A j \in Invocations : inv[j].event # ev
    /\ inv' = [j \in Invocations |->
                  IF j = i THEN [inv[i] EXCEPT !.event = ev, !.pc = "fetching"]
                  ELSE IF inv[j].pc \notin {"idle", "done"}
                  THEN [inv[j] EXCEPT !.event = ev]
                  ELSE inv[j]]
    /\ UNCHANGED <<env, rawThread, directory, botUserId, initState, mainVars, calls,
                   receiverVars, handlerVars, threadVars, platformPosts, promptVars, bootVars, retryVars, sqsVars>>

\* lines 22-40: invocation i starts for an event no other invocation handles
\* and issues the thread fetch
ConcReceive(i, ev) ==
    /\ inv[i].pc = "idle"
    /\ \A j \in Invocations : inv[j].event # ev
    /\ inv' = [inv EXCEPT ![i] = [@ EXCEPT !.event = ev, !.pc = "fetching"]]
    /\ UNCHANGED <<env, rawThread, directory, botUserId, initState, mainVars, calls,
                   receiverVars, handlerVars, threadVars, platformPosts, promptVars, bootVars, retryVars, sqsVars>>

\* lines 37-58: the fetch returns; the bot id is read, which may throw; the
\* loop runs up to its await of convertBlobsToBase64, or, without images, to
\* the call of generateResponse
ConcFetchReturns(i) ==
    /\ inv[i].pc = "fetching"
    /\ LET messages ==
               FetchThreadMessages(ThreadOf(inv[i].event.channel, ThreadTs(inv[i].event)),
                                   directory)
       IN inv' = [inv EXCEPT ![i] =
                     IF GetBotUserId(botUserId).threw
                     THEN [ConcCatch(i, Err(GetBotUserId(botUserId).value, "botid"))
                              EXCEPT !.slackMessages = messages]
                     ELSE [@ EXCEPT !.slackMessages = messages,
                                    !.botId = GetBotUserId(botUserId).value,
                                    !.pc = IF HasImages(messages) THEN "converting"
                                           ELSE "reading"]]
    /\ UNCHANGED <<env, rawThread, directory, botUserId, initState, mainVars, calls,
                   receiverVars, handlerVars, threadVars, platformPosts, promptVars, bootVars, retryVars, sqsVars>>

\* lines 58-71: convertBlobsToBase64 returns, the loop ends and
\* generateResponse is called, which awaits the system prompt
ConcConvertReturns(i) ==
    /\ inv[i].pc = "converting"
    /\ inv' = [inv EXCEPT ![i] = [@ EXCEPT !.pc = "reading"]]
    /\ UNCHANGED <<env, rawThread, directory, botUserId, initState, mainVars, calls,
                   receiverVars, handlerVars, threadVars, platformPosts, promptVars, bootVars, retryVars, sqsVars>>

\* gemini.service.ts 39-55: the system prompt was read, the request is built
\* from the invocation's messages and generateContent is issued
ConcSystemPromptRead(i) ==
    /\ inv[i].pc = "reading"
    /\ inv' = [inv EXCEPT ![i] =
                  [@ EXCEPT !.geminiMessages = AssembleAll(inv[i].slackMessages, inv[i].botId),
                            !.request = BuildRequest(AssembleAll(inv[i].slackMessages,
                                                                 inv[i].botId),
                                                     SystemPromptText, {}),
                            !.pc = "generating"]]
    /\ UNCHANGED <<env, rawThread, directory, botUserId, initState, mainVars, calls,
                   receiverVars, handlerVars, threadVars, platformPosts, promptVars, bootVars, retryVars, sqsVars>>

\* lines 71-85: generateContent answers the invocation's request and the
\* reply post is issued
ConcGenerateReturns(i) ==
    /\ inv[i].pc = "generating"
    /\ inv' = [inv EXCEPT ![i] =
                  [@ EXCEPT !.response = Answer(inv[i].request),
                            !.post = ReplyCall(inv[i].event, Answer(inv[i].request)),
                            !.pc = "posting"]]
    /\ UNCHANGED <<env, rawThread, directory, botUserId, initState, mainVars, calls,
                   receiverVars, handlerVars, threadVars, platformPosts, promptVars, bootVars, retryVars, sqsVars>>

\* lines 88-100: an awaited call of invocation i throws
ConcFails(i) ==
    /\ inv[i].pc \in {"fetching", "converting", "reading", "generating", "posting"}
    /\ inv' = [inv EXCEPT ![i] = ConcCatch(i, ConcFailure(inv[i].pc))]
    /\ UNCHANGED <<env, rawThread, directory, botUserId, initState, mainVars, calls,
                   receiverVars, handlerVars, threadVars, platformPosts, promptVars, bootVars, retryVars, sqsVars>>

\* lines 85-87 and 96-107: the post of invocation i (reply or notice) is
\* accepted by the platform and the handler settles
ConcPostReturns(i) ==
    /\ inv[i].pc \in {"posting", "notifying"}
    /\ platformPosts' = Append(platformPosts, [by |-> i, call |-> inv[i].post])
    /\ inv' = [inv EXCEPT ![i] = [@ EXCEPT !.pc = "done"]]
    /\ UNCHANGED <<env, rawThread, directory, botUserId, initState, mainVars, calls,
                   receiverVars, handlerVars, threadVars, promptVars, bootVars, retryVars, sqsVars>>

\* lines 101-107: the notice post of invocation i throws, which is logged
ConcNoticeFails(i) ==
    /\ inv[i].pc = "notifying"
    /\ inv' = [inv EXCEPT ![i] = [@ EXCEPT !.pc = "done"]]
    /\ UNCHANGED <<env, rawThread, directory, botUserId, initState, mainVars, calls,
                   receiverVars, handlerVars, threadVars, platformPosts, promptVars, bootVars, retryVars, sqsVars>>

ConcNext ==
    \/ InitializeOk
    \/ InitializeFails
    \/ \E i \in Invocations, ev \in Events : ConcReceive(i, ev)
    \/ \E i \in Invocations : ConcFetchReturns(i)
    \/ \E i \in Invocations : ConcConvertReturns(i)
    \/ \E i \in Invocations : ConcSystemPromptRead(i)
    \/ \E i \in Invocations : ConcGenerateReturns(i)
    \/ \E i \in Invocations : ConcFails(i)
    \/ \E i \in Invocations : ConcPostReturns(i)
    \/ \E i \in Invocations : ConcNoticeFails(i)

ConcSpec == ApiInit /\ [][ConcNext]_vars

-----------------------------------------------------------------------------
(* C24 *)

\* the thread of the event of invocation i, and the request built from it
OwnThread(i) ==
    FetchThreadMessages(ThreadOf(inv[i].event.channel, ThreadTs(inv[i].event)), directory)

OwnRequest(i) == BuildRequest(AssembleAll(OwnThread(i), BotId), SystemPromptText, {})

\* call is the reply to the request of invocation i, or the notice of its
\* error, and goes to the channel and thread of its event
OwnPost(i, call) ==
    /\ call.channel = inv[i].event.channel
    /\ call.thread_ts = ThreadTs(inv[i].event)
    /\ \/ call.text = <<Answer(OwnRequest(i))>>
       \/ inv[i].error # NoError /\ call.text = <<NoticePrefix, ErrorMessage(inv[i].error)>>

Isolated ==
    /\ \A i \in Invocations :
          /\ inv[i].request # NoRequest => inv[i].request = OwnRequest(i)
          /\ inv[i].pc \in {"posting", "notifying"} => OwnPost(i, inv[i].post)
    /\ \A p \in DOMAIN platformPosts : OwnPost(platformPosts[p].by, platformPosts[p].call)

\* C24: invocations for different events do not interfere.  Under every
\* interleaving of two invocations at their awaits, the request of each is
\* built from its own event's thread, and its reply or notice answers its own
\* request or error and goes to its own channel and thread; a step of one
\* invocation changes no local of the other, and no step of an invocation
\* writes the cached bot id.
C24_NoInterference ==
    /\ []Isolated
    /\ [][/\ \A i, j \in Invocations : inv'[i] # inv[i] /\ j # i => inv'[j] = inv[j]
          /\ inv' # inv => botUserId' = botUserId]_vars

\* two invocations are in flight for different events: the first awaits its
\* generation while the second, started after it, has issued its reply
C24_Witness ==
    /\ inv[1].pc = "generating"
    /\ inv[2].pc = "posting"
    /\ inv[1].event.channel = "C1"
    /\ inv[2].event.channel = "C2"
    /\ inv[1].request # inv[2].request
    /\ inv[2].post = ReplyCall(inv[2].event, Answer(OwnRequest(2)))

-----------------------------------------------------------------------------
(* The generation calls of one process (gemini.service.ts 39-64, 72-122,    *)
(* 160-184): each generateResponse call awaits buildSystemPrompt, which     *)
(* reads system_prompt.txt, before it builds its request                    *)

\* one generateResponse call: whether its messages hold images, where it
\* stands, and whether a read of the file had already returned when it
\* issued its own
GenCall(hasImages, at, warm) == [hasImages |-> hasImages, pc |-> at, warm |-> warm]

\* some call has the content of the file
PromptLoaded == \E c \in DOMAIN genCalls : genCalls[c].pc \in {"generating", "returned"}

\* lines 39-48, 72-75, 160-164, 174: generateResponse is called; on either
\* path buildSystemPrompt is awaited and calls readFile
GenerateCalled(hasImages) ==
    /\ Len(genCalls) < MaxGenerations
    /\ genCalls' = Append(genCalls, GenCall(hasImages, "reading", PromptLoaded))
    /\ promptReads' = promptReads + 1
    /\ UNCHANGED <<env, rawThread, directory, botUserId, initState, mainVars, calls,
                   receiverVars, handlerVars, threadVars, concVars, bootVars, retryVars, sqsVars>>

\* readFile resolves: the request is built and generateContent issued
PromptReadReturns(c) ==
    /\ c \in DOMAIN genCalls
    /\ genCalls[c].pc = "reading"
    /\ genCalls' = [genCalls EXCEPT ![c].pc = "generating"]
    /\ UNCHANGED <<env, rawThread, directory, botUserId, initState, mainVars, calls,
                   receiverVars, handlerVars, threadVars, concVars, promptReads, bootVars, retryVars, sqsVars>>

\* readFile rejects: generateResponse rejects
PromptReadFails(c) ==
    /\ c \in DOMAIN genCalls
    /\ genCalls[c].pc = "reading"
    /\ genCalls' = [genCalls EXCEPT ![c].pc = "threw"]
    /\ UNCHANGED <<env, rawThread, directory, botUserId, initState, mainVars, calls,
                   receiverVars, handlerVars, threadVars, concVars, promptReads, bootVars, retryVars, sqsVars>>

\* generateContent settles: generateResponse returns the text or rejects
GenerationSettles(c, ok) ==
    /\ c \in DOMAIN genCalls
    /\ genCalls[c].pc = "generating"
    /\ genCalls' = [genCalls EXCEPT ![c].pc = IF ok THEN "returned" ELSE "threw"]
    /\ UNCHANGED <<env, rawThread, directory, botUserId, initState, mainVars, calls,
                   receiverVars, handlerVars, threadVars, concVars, promptReads, bootVars, retryVars, sqsVars>>

PromptNext ==
    \/ \E hasImages \in BOOLEAN : GenerateCalled(hasImages)
    \/ \E c \in 1..MaxGenerations : PromptReadReturns(c)
    \/ \E c \in 1..MaxGenerations : PromptReadFails(c)
    \/ \E c \in 1..MaxGenerations, ok \in BOOLEAN : GenerationSettles(c, ok)

PromptSpec == ApiInit /\ [][PromptNext]_vars

-----------------------------------------------------------------------------
(* C25 *)

\* C25: the system instruction is read from its file once and reused: over
\* the generation calls of one process the file is read at most once, or more
\* often only by calls that issued their read while no read had returned yet
\* (concurrent first accesses).
C25_SystemPromptReadOnce ==
    \/ promptReads <= 1
    \/ \A c \in DOMAIN genCalls : ~genCalls[c].warm

-----------------------------------------------------------------------------
(* The whole of main() (logger.ts 38-63) with getEnvConfig (config.ts       *)
(* 18-41) and GarconBot (part_004): configuration, construction, start,    *)
(* the mention listener, and the shutdown on a termination signal          *)

\* the environments a process is started with: a setting is not set, empty,
\* or has a value
ProcEnvs ==
    {ProcEnv(bot, app, secret, key, model, port) :
        bot \in {Undefined, "", "xoxb-1"}, app \in {Undefined, "xapp-1"},
        secret \in {Undefined, "", "s3cret"}, key \in {Undefined, "", "AIza"},
        model \in {Undefined, "model-a"}, port \in {Undefined, "8080"}}

Signals == {"SIGINT", "SIGTERM"}

RequiredVars == <<"SLACK_BOT_TOKEN", "SLACK_SIGNING_SECRET", "GEMINI_API_KEY">>

\* !process.env[varName]
IsMissing(varName) == procEnv[varName] \in {Undefined, ""}

\* parseInt(s, 10) of the port strings that occur
ParseInt(s) == IF s = "3000" THEN 3000 ELSE 8080

\* process.env.X || fallback
EnvOr(v, fallback) == IF v \in {Undefined, ""} THEN fallback ELSE v

\* getEnvConfig: the names of the missing variables, and the result
Missing == SelectSeq(RequiredVars, IsMissing)

MissingMessage ==
    <<"Missing required environment variables: ">>
        \o Join([i \in DOMAIN Missing |-> <<Missing[i]>>], ", ")

GetEnvConfig ==
    Config(TRUE, procEnv.SLACK_BOT_TOKEN, procEnv.SLACK_APP_TOKEN,
           procEnv.SLACK_SIGNING_SECRET, procEnv.GEMINI_API_KEY,
           EnvOr(procEnv.GEMINI_MODEL, DefaultModel),
           ParseInt(EnvOr(procEnv.PORT, "3000")))

\* main's catch block: the error is logged and process.exit(1) called
MainCatch ==
    /\ mainPc' = "exited"
    /\ exitCode' = <<1>>

\* the process is started with an environment (whose GEMINI_MODEL is the one
\* the services see)
ProcessStarts(e) ==
    /\ bootPc = "off"
    /\ EnvOr(e.GEMINI_MODEL, "") = env.GEMINI_MODEL
    /\ procEnv' = e
    /\ bootPc' = "loading"
    /\ UNCHANGED <<env, rawThread, directory, botUserId, initState, mainVars, calls,
                   receiverVars, handlerVars, threadVars, concVars, promptVars,
                   config, configError, signals, stops, retryVars, sqsVars>>

\* Mutant: only the first missing variable is named.
LoadConfig_FirstMissing ==
    /\ exitCode = <<>>
    /\ bootPc = "loading"
    /\ IF Missing # <<>>
       THEN /\ configError' = <<"Missing required environment variables: ", Missing[1]>>
            /\ bootPc' = "failed"
            /\ MainCatch
            /\ UNCHANGED config
       ELSE /\ config' = GetEnvConfig
            /\ bootPc' = "constructing"
            /\ UNCHANGED <<configError, mainPc, exitCode>>
    /\ UNCHANGED <<env, rawThread, directory, botUserId, initState, listening, calls,
                   receiverVars, handlerVars, threadVars, concVars, promptVars,
                   procEnv, signals, stops, retryVars, sqsVars>>

\* logger.ts 40, config.ts 18-41: getEnvConfig throws, naming the missing
\* variables, which main catches; or it returns the configuration
LoadConfig ==
    /\ exitCode = <<>>
    /\ bootPc = "loading"
    /\ IF Missing # <<>>
       THEN /\ configError' = MissingMessage
            /\ bootPc' = "failed"
            /\ MainCatch
            /\ UNCHANGED config
       ELSE /\ config' = GetEnvConfig
            /\ bootPc' = "constructing"
            /\ UNCHANGED <<configError, mainPc, exitCode>>
    /\ UNCHANGED <<env, rawThread, directory, botUserId, initState, listening, calls,
                   receiverVars, handlerVars, threadVars, concVars, promptVars,
                   procEnv, signals, stops, retryVars, sqsVars>>

\* logger.ts 42-47, part_004 16-41: new GarconBot(...) returns; the mention
\* listener is registered on the app
ConstructBotReturns ==
    /\ exitCode = <<>>
    /\ bootPc = "constructing"
    /\ bootPc' = "constructed"
    /\ UNCHANGED <<env, rawThread, directory, botUserId, initState, mainVars, calls,
                   receiverVars, handlerVars, threadVars, concVars, promptVars,
                   procEnv, config, configError, signals, stops, retryVars, sqsVars>>

\* new App({appToken: undefined, socketMode: true}) throws in the constructor
ConstructBotThrows ==
    /\ exitCode = <<>>
    /\ bootPc = "constructing"
    /\ config.slackAppToken = Undefined
    /\ bootPc' = "failed"
    /\ MainCatch
    /\ UNCHANGED <<env, rawThread, directory, botUserId, initState, listening, calls,
                   receiverVars, handlerVars, threadVars, concVars, promptVars,
                   procEnv, config, configError, signals, stops, retryVars, sqsVars>>

Alive == bootPc = "constructed" /\ exitCode = <<>>

\* bot.start(config.port), lines 55-59 of part_004; a socket connection needs
\* the app-level token
MainStartInitializeOk == Alive /\ StartInitializeOk
MainStartInitializeFails == Alive /\ StartInitializeFails
MainAppStartReturns == Alive /\ config.slackAppToken # Undefined /\ AppStartReturns
MainAppStartFails == Alive /\ AppStartFails
MainReceive(ev) == Alive /\ BotReceive(ev)
MainHandlerStep == Alive /\ HandlerStep

\* a signal arrives before main has registered its handlers: the process is
\* terminated by it
SignalBeforeReady(sig) ==
    /\ exitCode = <<>>
    /\ bootPc # "off"
    /\ mainPc # "running"
    /\ Len(signals) < MaxSignals
    /\ signals' = Append(signals, sig)
    /\ mainPc' = "exited"
    /\ exitCode' = <<IF sig = "SIGINT" THEN 130 ELSE 143>>
    /\ UNCHANGED <<env, rawThread, directory, botUserId, initState, listening, calls,
                   receiverVars, handlerVars, threadVars, concVars, promptVars,
                   procEnv, bootPc, config, configError, stops, retryVars, sqsVars>>

\* Mutant: shutdown exits without awaiting bot.stop().
SignalReceived_NoAwait(sig) ==
    /\ exitCode = <<>>
    /\ mainPc = "running"
    /\ Len(signals) < MaxSignals
    /\ signals' = Append(signals, sig)
    /\ stops' = Append(stops, "pending")
    /\ mainPc' = "exited"
    /\ exitCode' = <<0>>
    /\ UNCHANGED <<env, rawThread, directory, botUserId, initState, listening, calls,
                   receiverVars, handlerVars, threadVars, concVars, promptVars,
                   procEnv, bootPc, config, configError, retryVars, sqsVars>>

\* logger.ts 51-58: a signal arrives at the running process; shutdown logs and
\* awaits bot.stop()
SignalReceived(sig) ==
    /\ exitCode = <<>>
    /\ mainPc = "running"
    /\ Len(signals) < MaxSignals
    /\ signals' = Append(signals, sig)
    /\ stops' = Append(stops, "pending")
    /\ UNCHANGED <<env, rawThread, directory, botUserId, initState, mainVars, calls,
                   receiverVars, handlerVars, threadVars, concVars, promptVars,
                   procEnv, bootPc, config, configError, retryVars, sqsVars>>

\* part_004 64-67, logger.ts 53-54: app.stop() resolves, the listener is
\* stopped, bot.stop() returns and shutdown calls process.exit(0)
StopReturns(s) ==
    /\ exitCode = <<>>
    /\ s \in DOMAIN stops
    /\ stops[s] = "pending"
    /\ stops' = [stops EXCEPT ![s] = "done"]
    /\ listening' = FALSE
    /\ mainPc' = "exited"
    /\ exitCode' = <<0>>
    /\ UNCHANGED <<env, rawThread, directory, botUserId, initState, calls,
                   receiverVars, handlerVars, threadVars, concVars, promptVars,
                   procEnv, bootPc, config, configError, signals, retryVars, sqsVars>>

\* app.stop() rejects: shutdown rejects with nothing to catch it, and the
\* unhandled rejection ends the process with status 1
StopFails(s) ==
    /\ exitCode = <<>>
    /\ s \in DOMAIN stops
    /\ stops[s] = "pending"
    /\ stops' = [stops EXCEPT ![s] = "failed"]
    /\ mainPc' = "exited"
    /\ exitCode' = <<1>>
    /\ UNCHANGED <<env, rawThread, directory, botUserId, initState, listening, calls,
                   receiverVars, handlerVars, threadVars, concVars, promptVars,
                   procEnv, bootPc, config, configError, signals, retryVars, sqsVars>>

MainNext ==
    \/ \E e \in ProcEnvs : ProcessStarts(e)
    \/ LoadConfig
    \/ ConstructBotReturns
    \/ ConstructBotThrows
    \/ MainStartInitializeOk
    \/ MainStartInitializeFails
    \/ MainAppStartReturns
    \/ MainAppStartFails
    \/ \E ev \in Events : MainReceive(ev)
    \/ MainHandlerStep
    \/ \E sig \in Signals : SignalBeforeReady(sig)
    \/ \E sig \in Signals : SignalReceived(sig)
    \/ \E s \in 1..MaxSignals : StopReturns(s)
    \/ \E s \in 1..MaxSignals : StopFails(s)

\* one thread, of a message with an image
MainInit ==
    /\ Init
    /\ directory = DirectoryOk
    /\ rawThread = [hasMessages |-> TRUE,
                    messages |-> <<RawMsg("U1", "", "the receipt",
                                          <<File("f1", "image/png", TRUE),
                                            File("f5", "application/pdf", TRUE)>>)>>]

MainSpec == MainInit /\ [][MainNext]_vars

-----------------------------------------------------------------------------
(* C26 *)

ConfigLoadingOver == bootPc \in {"failed", "constructing", "constructed"}

\* C26: when a required setting (bot token, signing secret, API key) is not
\* set or empty, getEnvConfig throws an error that names every missing
\* setting and no other, no configuration exists, no listener is started, no
\* mention is handled and the process exits with a status other than zero;
\* when all three are there, the configuration is returned with the model
\* name "gemini-2.5-pro" and the port 3000 wherever these are not set.
C26_MissingSettingsAreFatal ==
    ConfigLoadingOver =>
        IF \E v \in Range(RequiredVars) : IsMissing(v)
        THEN /\ bootPc = "failed"
             /\ configError # <<>>
             /\ \A v \in Range(RequiredVars) : IsMissing(v) <=> v \in Range(configError)
             /\ ~config.loaded
             /\ ~listening /\ mainPc = "exited"
             /\ pc = "idle" /\ log = <<>> /\ postCalls = <<>>
             /\ exitCode # <<>> /\ exitCode[1] # 0
        ELSE /\ configError = <<>>
             /\ config.loaded
             /\ config.slackBotToken = procEnv.SLACK_BOT_TOKEN
             /\ config.slackSigningSecret = procEnv.SLACK_SIGNING_SECRET
             /\ config.geminiApiKey = procEnv.GEMINI_API_KEY
             /\ config.geminiModel = (IF procEnv.GEMINI_MODEL = Undefined
                                      THEN "gemini-2.5-pro" ELSE procEnv.GEMINI_MODEL)
             /\ config.port = (IF procEnv.PORT = Undefined THEN 3000 ELSE 8080)

\* the bot token is empty and the API key not set: configuration loading
\* failed naming both, and the process has exited with status 1
C26_Witness ==
    /\ procEnv.SLACK_BOT_TOKEN = ""
    /\ procEnv.SLACK_SIGNING_SECRET = "s3cret"
    /\ procEnv.GEMINI_API_KEY = Undefined
    /\ bootPc = "failed"
    /\ Range(configError) \cap Range(RequiredVars) = {"SLACK_BOT_TOKEN", "GEMINI_API_KEY"}
    /\ exitCode = <<1>>

-----------------------------------------------------------------------------
(* C27 *)

\* C27: the long-running deployment cannot be started without the app-level
\* socket token: when SLACK_APP_TOKEN is not set, configuration loading fails
\* with an error, no configuration is returned and the bot is never
\* constructed.
C27_AppTokenValidated ==
    ConfigLoadingOver /\ procEnv.SLACK_APP_TOKEN = Undefined =>
        /\ bootPc = "failed"
        /\ configError # <<>>
        /\ ~config.loaded

-----------------------------------------------------------------------------
(* C28 *)

\* C28: a termination signal at a running instance calls bot.stop() first,
\* and the process exits with status zero only after a stop has completed and
\* the listener is stopped; while the stop is pending, or when it failed, the
\* process has not exited with zero.
C28_StopBeforeExitZero ==
    /\ stops # <<>> => Len(stops) = Len(signals)
    /\ exitCode = <<0>> =>
          /\ signals # <<>>
          /\ \E s \in DOMAIN stops : stops[s] = "done"
          /\ ~listening
    /\ (\A s \in DOMAIN stops : stops[s] # "done") => exitCode # <<0>> 

\* SIGTERM arrived while a mention was being handled: the listener was
\* stopped and the process exited with status zero
C28_Witness ==
    /\ signals = <<"SIGTERM">>
    /\ stops = <<"done">>
    /\ pc = "generating"
    /\ ~listening
    /\ exitCode = <<0>>

-----------------------------------------------------------------------------
(* fetchThreadMessages called again for the same channel and thread, with   *)
(* nothing changed on the platform in between                              *)

\* fetchThreadMessages(channel, threadTs) is called once the call before it
\* has settled
CallFetch ==
    /\ pc = "idle"
    /\ fetchPc \in {"idle", "returned", "threw"}
    /\ Len(fetchResults) < MaxFetches
    /\ fetchPc' = "called"
    /\ UNCHANGED <<env, rawThread, directory, botUserId, initState, mainVars, calls,
                   receiverVars, handlerVars, lookupCalls, lookupsSettled, userMap,
                   fetchResults, concVars, promptVars, bootVars, retryVars, sqsVars>>

RefetchNext ==
    \/ CallFetch
    \/ RepliesReturn
    \/ RepliesFail
    \/ \E id \in Range(lookupCalls) : LookupSettles(id)
    \/ NamesApplied

RefetchSpec == Init /\ [][RefetchNext]_vars

-----------------------------------------------------------------------------
(* C29 *)

\* C29: fetchThreadMessages called twice for the same thread, the platform
\* answering the same, returns the same message sequence (length, order,
\* authors, texts, names and images), whatever the order in which the
\* lookups of either call settle; a call starts from an empty map and the
\* calls leave the cached bot id as it was.
C29_FetchIsIdempotent ==
    /\ \A a, b \in DOMAIN fetchResults : fetchResults[a] = fetchResults[b]
    /\ DOMAIN userMap \subseteq Range(lookupsSettled)
    /\ botUserId = Null

\* a thread of two users, one message with two images, was fetched twice with
\* the lookup of U1 failing; in the second call the lookups settled in the
\* reverse of the order they were issued in
C29_Witness ==
    /\ Len(fetchResults) = 2
    /\ Len(fetchResults[1]) = 3
    /\ \E k \in 1..3 : Len(fetchResults[2][k].images) = 2
    /\ lookupsSettled = <<"U2", "U1">>
    /\ directory["U1"].kind = "error"

-----------------------------------------------------------------------------
(* C30 *)

\* /<@[A-Z0-9]+>/ matches the text (over the texts of the threads)
HasMentionMarkup(text) == text = "<@UBOT> one koshari"

\* C30: no text handed to the model holds mention markup of the form <@ID>:
\* neither a piece of the prompt string nor a piece of a text part.
C30_MentionsStripped ==
    request.kind # "none" =>
        /\ \A i \in DOMAIN request.prompt : ~HasMentionMarkup(request.prompt[i])
        /\ \A p \in DOMAIN request.parts :
              \A i \in DOMAIN request.parts[p].text :
                  ~HasMentionMarkup(request.parts[p].text[i])

-----------------------------------------------------------------------------
(* C33 *)

\* C33: in one invocation of handleAppMention at most one reply post and at
\* most one notice post are attempted, a notice is attempted only while no
\* reply post has succeeded, and once the handler has settled it has
\* resolved exactly when the reply post succeeded.
C33_ReplyExcludesNotice ==
    /\ Len(Replies(postCalls)) <= 1
    /\ Len(Notices(postCalls)) <= 1
    /\ Notices(postCalls) # <<>> => Replies(posted) = <<>>
    /\ Replies(posted) # <<>> => outcome.state = "resolved"
    /\ outcome.state # "pending" =>
         (outcome.state = "resolved" <=> Replies(posted) # <<>>)

\* The reply post was attempted and threw, the notice was then posted and
\* the handler rejected: both posts attempted, only the notice delivered.
C33_Witness ==
    /\ outcome.state = "rejected"
    /\ error.origin = "post"
    /\ Len(Replies(postCalls)) = 1
    /\ Replies(posted) = <<>>
    /\ Len(Notices(posted)) = 1

-----------------------------------------------------------------------------
(* C38 *)

\* the thread fetch of this invocation has returned the empty list
EmptyFetched == Returns("fetch") # {} /\ slackMessages = <<>>

\* what an invocation that fetched the empty list may do
EmptyThreadHandled ==
    /\ error.origin \in {"none", "botid", "generate", "post"}
    /\ Cardinality(Calls("generate")) <= 1
    /\ Len(attempts) <= 1
    /\ geminiMessages = <<>>
    /\ request # NoRequest => request = BuildRequest(<<>>, SystemPromptText, {})
    /\ error = NoError =>
         /\ Notices(postCalls) = <<>>
         /\ response # Null => postCalls = <<ReplyCall(event, response)>>
         /\ pc = "done" =>
              /\ outcome.state = "resolved"
              /\ posted = <<ReplyCall(event, response)>>

\* C38: an empty list returned by the thread fetch is not a failure.  No
\* error of the invocation stems from the fetch or from the conversion; once
\* the bot id was read the handler calls generateResponse, once, with the
\* empty conversation; and when the calls that follow succeed, the text of
\* the model is the one post of the invocation and no notice is posted.
C38_EmptyThreadIsNotAFailure ==
    /\ [](EmptyFetched => EmptyThreadHandled)
    /\ (EmptyFetched /\ pc = "assembling")
          ~> (pc = "done" /\ Cardinality(Calls("generate")) = 1)

\* The fetch returned the empty list and the handler resolved after posting
\* the text of the model, generated from the empty conversation.
C38_Witness ==
    /\ EmptyFetched
    /\ outcome.state = "resolved"
    /\ request = BuildRequest(<<>>, SystemPromptText, {})
    /\ posted = <<ReplyCall(event, response)>>

-----------------------------------------------------------------------------
(* C39 *)

\* the step in which the thread fetch of the handler returns
FetchReturning == pc = "fetching" /\ pc' # "fetching" /\ error'.origin # "fetch"

\* C39: the cached bot user id is written by initialize alone.  Once set it
\* is kept by every step (thread fetch with its user lookups and image
\* downloads, posts); while it is unset, getBotUserId throws and leaves the
\* service as it was, so that a mention whose fetch returns in that window
\* enters the catch block with that error, after the fetch and before any
\* generation, and posts the notice.
C39_BotIdOnlySetByInitialize ==
    /\ [][botUserId # Null => botUserId' = botUserId]_vars
    /\ [][botUserId' # botUserId => initState = "pending" /\ initState' = "ok"]_vars
    /\ [][FetchReturning /\ botUserId = Null =>
            /\ error' = Err(ErrNoBotId, "botid")
            /\ botUserId' = Null /\ initState' = initState
            /\ pc' = "notifying"
            /\ postCalls' = <<NoticeCall(event, error')>>]_vars
    /\ [](error.origin = "botid" =>
            /\ Returns("fetch") # {}
            /\ Calls("generate") = {}
            /\ localBotId = Null
            /\ Replies(postCalls) = <<>>)

\* A mention was handled before initialize had succeeded: it took the notice
\* path and rejected; initialize succeeded while the notice was under way,
\* and the id it cached is still there.
C39_Witness ==
    /\ error.origin = "botid"
    /\ outcome.state = "rejected"
    /\ Len(Notices(posted)) = 1
    /\ initState = "ok"
    /\ botUserId = BotId

-----------------------------------------------------------------------------
(* Display names: fetchThreadMessages over every shape of a users.info answer *)

\* users.info resolves without a user
NoUser == [kind |-> "nouser", name |-> "", real_name |-> ""]

\* what users.info may answer for one id: a profile whose real name and
\* handle are each present or empty, no user, or a failure
LookupAnswers ==
    {Profile(n, r) : n \in {"", "alice"}, r \in {"", "Alice A."}}
        \cup {NoUser, LookupFails}

NameDirectories ==
    {[DirectoryOk EXCEPT !["U1"] = a, !["U2"] = b] : a, b \in LookupAnswers}

\* threads of two humans and an integration, without files
NameThreads ==
    {[hasMessages |-> TRUE, messages |-> m] :
        m \in {s \in SeqsUpTo({RawMsg("U1", "", "two falafel", <<>>),
                               RawMsg("U2", "", "<@UBOT> one koshari", <<>>),
                               RawMsg("", "B1", "", <<>>)}, MaxMsgs - 1) :
                 Distinct(s)}}

NameInit ==
    /\ env = EnvOf("", <<>>)
    /\ rawThread \in NameThreads
    /\ directory \in NameDirectories
    /\ Constructed

NameSpec == NameInit /\ [][RefetchNext]_vars

-----------------------------------------------------------------------------
(* C32 *)

\* the precedence of the claim: real name, then handle, then the placeholder
DisplayName(profile) ==
    IF profile.real_name # "" THEN profile.real_name
    ELSE IF profile.name # "" THEN profile.name
    ELSE "Unknown User"

\* users.info gave a profile for the id
LookupSucceeded(id) == id \in DOMAIN directory /\ directory[id].kind = "user"

\* C32: every message returned by fetchThreadMessages whose author's lookup
\* gave a profile carries the real name of the profile if that is not empty,
\* else its handle if that is not empty, else "Unknown User"; it is never
\* empty and never absent.
C32_DisplayNamePrecedence ==
    \A f \in DOMAIN fetchResults : \A k \in DOMAIN fetchResults[f] :
        LET msg == fetchResults[f][k]
        IN (IsUserId(msg.user) /\ LookupSucceeded(msg.user)) =>
              /\ msg.userName = DisplayName(directory[msg.user])
              /\ msg.userName \notin {"", Undefined}

\* A returned thread with one author whose profile has neither real name nor
\* handle, named by the placeholder, and one with a handle only, named by it.
C32_Witness ==
    \E f \in DOMAIN fetchResults :
        /\ Len(fetchResults[f]) = 2
        /\ directory["U1"] = Profile("", "")
        /\ directory["U2"] = Profile("alice", "")
        /\ fetchResults[f][1].user = "U1" /\ fetchResults[f][1].userName = "Unknown User"
        /\ fetchResults[f][2].user = "U2" /\ fetchResults[f][2].userName = "alice"

-----------------------------------------------------------------------------
(* Authors without a user id: the handler over threads that hold messages  *)
(* of an integration (bot_id only) and messages without any author field,  *)
(* one of them with an image                                               *)

\* users.info would answer for every id it is asked about
LabelDirectory ==
    [id \in {"U1", "U2", BotId, "B1", "unknown"} |->
        IF id \in {"B1", "unknown"} THEN Profile("ghost", "Ghost G.")
        ELSE DirectoryOk[id]]

LabelThreads ==
    {[hasMessages |-> TRUE, messages |-> m] :
        m \in {s \in SeqsUpTo({RawMsg("U1", "", "two falafel", <<>>),
                               RawMsg("", "B1", "", <<>>),
                               RawMsg("", "", "the receipt",
                                      <<File("f1", "image/png", TRUE)>>)}, MaxMsgs - 1) :
                 Distinct(s)}}

LabelInit ==
    /\ env = EnvOf("", <<>>)
    /\ rawThread \in LabelThreads
    /\ directory = LabelDirectory
    /\ Constructed

LabelSpec == LabelInit /\ [][ThreadNext]_vars

-----------------------------------------------------------------------------
(* C40 *)

\* an author id that is the literal "unknown" or starts with "B"
NotLookedUp(id) == id = "unknown" \/ StartsWithB(id)

\* C40: users.info is called only for author ids that are neither "unknown"
\* nor start with "B"; a message of such an author is returned without a
\* display name, and in the request handed to the model its label is "User".
C40_NoLookupForBotOrUnknown ==
    /\ \A i \in DOMAIN lookupCalls : ~NotLookedUp(lookupCalls[i])
    /\ \A id \in DOMAIN userMap : ~NotLookedUp(id)
    /\ \A f \in DOMAIN fetchResults : \A k \in DOMAIN fetchResults[f] :
          NotLookedUp(fetchResults[f][k].user) =>
              fetchResults[f][k].userName = Undefined
    /\ request.kind # "none" =>
          \A k \in DOMAIN slackMessages :
              NotLookedUp(slackMessages[k].user) =>
                  /\ geminiMessages[k].role = "user"
                  /\ UnitLabel(k) = "User"

\* A request for a thread of an integration's message and a message without
\* author: no lookup was issued and both are labelled "User".
C40_Witness ==
    /\ request.kind # "none"
    /\ Len(slackMessages) = 2
    /\ slackMessages[1].user = "B1"
    /\ slackMessages[2].user = "unknown"
    /\ lookupCalls = <<>>
    /\ UnitLabel(1) = "User" /\ UnitLabel(2) = "User"

-----------------------------------------------------------------------------
(* C34 *)

\* the notice of the embedded handler was delivered
PardonPosted ==
    \E k \in DOMAIN posted : posted[k] = PardonCall(event, error)

\* C34: the handler embedded in GarconBot never rejects with the error of
\* its pipeline.  Once it has settled after a pipeline failure, either the
\* notice was posted and it resolved, or the notice post threw and it
\* rejected with the error of that post.
C34_EmbeddedHandlerSwallows ==
    /\ outcome.state = "rejected" =>
          /\ error # NoError
          /\ postError # NoError
          /\ outcome.thrown = postError
          /\ outcome.thrown # error
          /\ ~PardonPosted
    /\ (pc = "done" /\ error # NoError) =>
          IF PardonPosted
          THEN outcome = [state |-> "resolved", thrown |-> NoError]
          ELSE outcome = [state |-> "rejected", thrown |-> postError]

\* The reply post failed, the notice about it was posted, and the handler
\* resolved.
C34_Witness ==
    /\ pc = "done"
    /\ error.origin = "post"
    /\ PardonPosted
    /\ outcome.state = "resolved"

-----------------------------------------------------------------------------
(* retryOperation (part_002 22-53), the helper of the SlackService revision  *)
(* that retries its client calls.  retry.operation builds one timeout per   *)
(* retry; operation.attempt calls the callback at once with attempt 1;      *)
(* operation.retry(err) records err and, while a timeout is left, arms the  *)
(* timer that calls the callback again with the next attempt number,        *)
(* otherwise returns false.  The lengths of the timeouts are left out.      *)

\* one call of fn: result is "pending", "ok" or the failure it rejected with
FnCall(attempt, result) == [attempt |-> attempt, result |-> result]

\* a call of resolve (with the result of the attempt) or of reject
Settlement(kind, attempt, failure) ==
    [kind |-> kind, attempt |-> attempt, error |-> failure]

\* operation.mainError(): the error that occurred most often, the latest of
\* them when several did
MainError(errors) ==
    LET CountUpTo(i) == Cardinality({j \in 1..i : errors[j] = errors[i]})
        most == CHOOSE c \in {CountUpTo(i) : i \in DOMAIN errors} :
                    \A i \in DOMAIN errors : CountUpTo(i) <= c
        last == CHOOSE i \in DOMAIN errors :
                    /\ CountUpTo(i) = most
                    /\ \A j \in DOMAIN errors : CountUpTo(j) = most => j <= i
    IN errors[last]

SettleFn(result) ==
    [fnCalls EXCEPT ![Len(fnCalls)] = FnCall(fnCalls[Len(fnCalls)].attempt, result)]

\* lines 29-40: the operation is created and attempt 1 calls fn
RetryOperationCalled(retries) ==
    /\ retryPc = "idle"
    /\ operation' = RetryOperation(retries, retries, 1, <<>>)
    /\ fnCalls' = <<FnCall(1, "pending")>>
    /\ retryPc' = "attempting"
    /\ UNCHANGED <<env, rawThread, directory, botUserId, initState, mainVars, calls,
                   handlerVars, receiverVars, threadVars, concVars, promptVars,
                   bootVars, failedAttempts, settlements, sqsVars>>

\* lines 40-41: fn resolves; resolve(result)
FnResolves ==
    /\ retryPc = "attempting"
    /\ fnCalls' = SettleFn("ok")
    /\ settlements' = Append(settlements, Settlement("resolve", operation.attempts, ""))
    /\ retryPc' = "settled"
    /\ UNCHANGED <<env, rawThread, directory, botUserId, initState, mainVars, calls,
                   handlerVars, receiverVars, threadVars, concVars, promptVars,
                   bootVars, operation, failedAttempts, sqsVars>>

\* Mutant: reject is called for every failed attempt, and the retry goes on.
FnRejects_RejectsEach(failure) ==
    /\ retryPc = "attempting"
    /\ fnCalls' = SettleFn(failure)
    /\ failedAttempts' =
          Append(failedAttempts, [error |-> failure, attempt |-> operation.attempts])
    /\ settlements' =
          Append(settlements,
                 Settlement("reject", 0, MainError(Append(operation.errors, failure))))
    /\ IF operation.timeouts = 0
       THEN /\ operation' = [operation EXCEPT !.errors = Append(@, failure)]
            /\ retryPc' = "settled"
       ELSE /\ operation' = [operation EXCEPT !.errors = Append(@, failure),
                                              !.timeouts = @ - 1]
            /\ retryPc' = "waiting"
    /\ UNCHANGED <<env, rawThread, directory, botUserId, initState, mainVars, calls,
                   handlerVars, receiverVars, threadVars, concVars, promptVars,
                   bootVars, sqsVars>>

\* lines 42-49: fn rejects; onFailedAttempt is called with the number of the
\* attempt; operation.retry arms the next attempt, or, with no retry left,
\* returns false and reject(operation.mainError()) is called
FnRejects(failure) ==
    /\ retryPc = "attempting"
    /\ fnCalls' = SettleFn(failure)
    /\ failedAttempts' =
          Append(failedAttempts, [error |-> failure, attempt |-> operation.attempts])
    /\ IF operation.timeouts = 0
       THEN /\ operation' = [operation EXCEPT !.errors = Append(@, failure)]
            /\ settlements' =
                  Append(settlements,
                         Settlement("reject", 0, MainError(operation'.errors)))
            /\ retryPc' = "settled"
       ELSE /\ operation' = [operation EXCEPT !.errors = Append(@, failure),
                                              !.timeouts = @ - 1]
            /\ retryPc' = "waiting"
            /\ UNCHANGED settlements
    /\ UNCHANGED <<env, rawThread, directory, botUserId, initState, mainVars, calls,
                   handlerVars, receiverVars, threadVars, concVars, promptVars,
                   bootVars, sqsVars>>

\* the timer of operation.retry fires: the callback runs with the next
\* attempt number and calls fn
RetryTimerFires ==
    /\ retryPc = "waiting"
    /\ operation' = [operation EXCEPT !.attempts = @ + 1]
    /\ fnCalls' = Append(fnCalls, FnCall(operation.attempts + 1, "pending"))
    /\ retryPc' = "attempting"
    /\ UNCHANGED <<env, rawThread, directory, botUserId, initState, mainVars, calls,
                   handlerVars, receiverVars, threadVars, concVars, promptVars,
                   bootVars, failedAttempts, settlements, sqsVars>>

RetryNext ==
    \/ \E retries \in 0..MaxRetries : RetryOperationCalled(retries)
    \/ FnResolves
    \/ \E failure \in ApiFailures : FnRejects(failure)
    \/ RetryTimerFires

RetrySpec == ApiInit /\ [][RetryNext]_vars

-----------------------------------------------------------------------------
(* C37 *)

FnFailed(k) == fnCalls[k].result \notin {"pending", "ok"}

\* C37: the promise of retryOperation is settled at most once, and once it
\* is settled nothing more happens.  A resolve carries the result of the one
\* successful attempt, which is the last call of fn; a reject comes only when
\* the first attempt and every retry have failed; onFailedAttempt was called
\* once for every failed attempt, with the numbers 1, 2, ... in this order.
C37_RetrySettlesOnce ==
    /\ [](/\ Len(settlements) <= 1
          /\ retryPc = "settled" <=> Len(settlements) = 1
          /\ \A k \in DOMAIN fnCalls :
                /\ fnCalls[k].attempt = k
                /\ k < Len(fnCalls) => FnFailed(k)
          /\ failedAttempts =
                [k \in {j \in DOMAIN fnCalls : FnFailed(j)} |->
                    [error |-> fnCalls[k].result, attempt |-> k]]
          /\ \A s \in DOMAIN settlements :
                IF settlements[s].kind = "resolve"
                THEN /\ fnCalls[Len(fnCalls)].result = "ok"
                     /\ settlements[s].attempt = Len(fnCalls)
                ELSE /\ Len(fnCalls) = operation.retries + 1
                     /\ operation.timeouts = 0
                     /\ \A k \in DOMAIN fnCalls : FnFailed(k)
                     /\ \E k \in DOMAIN fnCalls :
                           settlements[s].error = fnCalls[k].result)
    /\ [][settlements # <<>> =>
            /\ settlements' = settlements
            /\ fnCalls' = fnCalls
            /\ failedAttempts' = failedAttempts]_vars

\* The first two attempts failed and the third succeeded: onFailedAttempt was
\* called with 1 and 2, and the promise resolved with the third result.
C37_Witness ==
    /\ Len(fnCalls) = 3
    /\ settlements = <<Settlement("resolve", 3, "")>>
    /\ Len(failedAttempts) = 2
    /\ failedAttempts[1].attempt = 1 /\ failedAttempts[2].attempt = 2

-----------------------------------------------------------------------------
(* The queue processor (part_007): one container, invoked with batches of    *)
(* records of the events queue.  The queue may deliver a body again, in the *)
(* same or in a later batch; which bodies a batch holds is an input.        *)

\* a body that is not JSON
MalformedBody ==
    <<"not json", [type |-> "", channel |-> "", ts |-> "", thread_ts |-> ""]>>

\* record.body: what the receiver sent for an event, or something else
SqsBodies == {JsonStringify(ev) : ev \in ReceiverEvents} \cup {MalformedBody}

\* JSON.parse(record.body): the event, or the SyntaxError it throws
JsonParse(body) ==
    IF body[1] = "json" THEN [threw |-> FALSE, value |-> body[2]]
    ELSE [threw |-> TRUE, value |-> body[2]]

\* how an invocation ended: size is the number of its records, at the record
\* at which the error was thrown (0 when initialize threw, size + 1 when the
\* loop ran to its end)
SqsResult(size, state, at) == [size |-> size, state |-> state, at |-> at]

\* one settled handleAppMention call of the processor
HandlerCall(invocation, record, ev, state) ==
    [invocation |-> invocation, record |-> record, event |-> ev, state |-> state]

\* what the platform keeps of a post it accepted
Accepted(post) ==
    [channel |-> post.channel, thread_ts |-> post.thread_ts,
     kind |-> IF IsNotice(post) THEN "notice" ELSE "reply"]

ThisInvocation == Len(sqsResults) + 1

\* the records the container was handed in the invocations that are over
RECURSIVE RecordsHanded(_)
RecordsHanded(results) ==
    IF results = <<>> THEN 0
    ELSE results[Len(results)].size + RecordsHanded(SubSeq(results, 1, Len(results) - 1))

\* event.Records of the next invocation: the queue hands over one record or more
SqsBatches ==
    {b \in SeqsUpTo(SqsBodies, MaxSqsRecords - RecordsHanded(sqsResults)) : b # <<>>}

\* lines 23-26: the processor is invoked; initialize is called unless the
\* flag is set
SqsInvoke(batch) ==
    /\ sqsPc = "idle"
    /\ records' = batch
    /\ sqsThrown' = NoError
    /\ IF ~initialized
       THEN /\ initCalls' = initCalls + 1
            /\ initState' = "pending"
            /\ sqsPc' = "initializing"
            /\ UNCHANGED recordIdx
       ELSE /\ recordIdx' = 1
            /\ sqsPc' = "looping"
            /\ UNCHANGED <<initCalls, initState>>
    /\ UNCHANGED <<env, rawThread, directory, botUserId, mainVars, calls, handlerVars,
                   receiverVars, threadVars, concVars, promptVars, bootVars, retryVars,
                   initialized, processings, delivered, sqsResults>>

\* Mutant: the flag is set before initialize is awaited.
SqsInitializeFails_FlagSet ==
    /\ sqsPc = "initializing"
    /\ initState' = "failed"
    /\ initialized' = TRUE
    /\ sqsResults' = Append(sqsResults, SqsResult(Len(records), "rejected", 0))
    /\ sqsThrown' = Err("auth.test failed", "initialize")
    /\ sqsPc' = "idle"
    /\ UNCHANGED <<env, rawThread, directory, botUserId, mainVars, calls, handlerVars,
                   receiverVars, threadVars, concVars, promptVars, bootVars, retryVars,
                   records, recordIdx, initCalls, processings, delivered>>

\* lines 26-27: initialize resolves and the flag is set
SqsInitializeOk ==
    /\ sqsPc = "initializing"
    /\ botUserId' = BotId
    /\ initState' = "ok"
    /\ initialized' = TRUE
    /\ recordIdx' = 1
    /\ sqsPc' = "looping"
    /\ UNCHANGED <<env, rawThread, directory, mainVars, calls, handlerVars,
                   receiverVars, threadVars, concVars, promptVars, bootVars, retryVars,
                   records, initCalls, processings, delivered, sqsResults, sqsThrown>>

\* line 26: initialize rejects and so does the invocation
SqsInitializeFails ==
    /\ sqsPc = "initializing"
    /\ initState' = "failed"
    /\ sqsResults' = Append(sqsResults, SqsResult(Len(records), "rejected", 0))
    /\ sqsThrown' = Err("auth.test failed", "initialize")
    /\ sqsPc' = "idle"
    /\ UNCHANGED <<env, rawThread, directory, botUserId, mainVars, calls, handlerVars,
                   receiverVars, threadVars, concVars, promptVars, bootVars, retryVars,
                   initialized, records, recordIdx, initCalls, processings, delivered>>

\* Mutant: a mention whose event was handled before is passed over as well.
SqsSkipRecord_Deduplicates ==
    /\ sqsPc = "looping"
    /\ recordIdx <= Len(records)
    /\ ~JsonParse(records[recordIdx]).threw
    /\ \/ JsonParse(records[recordIdx]).value.type # "app_mention"
       \/ \E p \in DOMAIN processings :
             /\ processings[p].event = JsonParse(records[recordIdx]).value
             /\ processings[p].state = "resolved"
    /\ recordIdx' = recordIdx + 1
    /\ UNCHANGED <<env, rawThread, directory, botUserId, initState, mainVars, calls,
                   handlerVars, receiverVars, threadVars, concVars, promptVars,
                   bootVars, retryVars, initialized, sqsPc, records, initCalls,
                   processings, delivered, sqsResults, sqsThrown>>

\* lines 31-41: a record that is not a mention is passed over
SqsSkipRecord ==
    /\ sqsPc = "looping"
    /\ recordIdx <= Len(records)
    /\ ~JsonParse(records[recordIdx]).threw
    /\ JsonParse(records[recordIdx]).value.type # "app_mention"
    /\ recordIdx' = recordIdx + 1
    /\ UNCHANGED <<env, rawThread, directory, botUserId, initState, mainVars, calls,
                   handlerVars, receiverVars, threadVars, concVars, promptVars,
                   bootVars, retryVars, initialized, sqsPc, records, initCalls,
                   processings, delivered, sqsResults, sqsThrown>>

\* line 32: JSON.parse throws, outside the try block: the invocation rejects
SqsParseFails ==
    /\ sqsPc = "looping"
    /\ recordIdx <= Len(records)
    /\ JsonParse(records[recordIdx]).threw
    /\ sqsResults' = Append(sqsResults, SqsResult(Len(records), "rejected", recordIdx))
    /\ sqsThrown' = Err("Unexpected token", "parse")
    /\ sqsPc' = "idle"
    /\ UNCHANGED <<env, rawThread, directory, botUserId, initState, mainVars, calls,
                   handlerVars, receiverVars, threadVars, concVars, promptVars,
                   bootVars, retryVars, initialized, records, recordIdx, initCalls,
                   processings, delivered>>

\* lines 34-36: handleAppMention is called with the event of the record, as
\* a new invocation of the handler (Receive, with the locals of the call new)
SqsHandleRecord ==
    /\ sqsPc = "looping"
    /\ recordIdx <= Len(records)
    /\ ~JsonParse(records[recordIdx]).threw
    /\ JsonParse(records[recordIdx]).value.type = "app_mention"
    /\ pc = "idle"
    /\ event' = JsonParse(records[recordIdx]).value
    /\ fetchCall' = [channel |-> event'.channel, ts |-> ThreadTs(event')]
    /\ log' = <<Step("fetch", "call")>>
    /\ pc' = "fetching"
    /\ sqsPc' = "handling"
    /\ UNCHANGED <<env, rawThread, directory, botUserId, initState, mainVars, calls,
                   localBotId, slackMessages, geminiMessages, idx, request, attempts,
                   response, error, postError, postCalls, posted, outcome, fetched,
                   imageFailures, receiverVars, threadVars, concVars, promptVars,
                   bootVars, retryVars, initialized, records, recordIdx, initCalls,
                   processings, delivered, sqsResults, sqsThrown>>

\* the handler called by the processor takes a step
SqsHandlerStep == sqsPc = "handling" /\ HandlerStep

\* Mutant: the error of the handler is logged and the loop goes on.
SqsHandlerSettles_Swallows ==
    /\ sqsPc = "handling"
    /\ pc = "done"
    /\ processings' = Append(processings,
                             HandlerCall(ThisInvocation, recordIdx, event, outcome.state))
    /\ delivered' = delivered \o [k \in DOMAIN posted |-> Accepted(posted[k])]
    /\ recordIdx' = recordIdx + 1
    /\ sqsPc' = "looping"
    /\ UNCHANGED <<sqsResults, sqsThrown>>
    /\ localBotId' = Null
    /\ event' = [channel |-> "", ts |-> "", thread_ts |-> ""]
    /\ pc' = "idle"
    /\ slackMessages' = <<>>
    /\ geminiMessages' = <<>>
    /\ idx' = 0
    /\ request' = NoRequest
    /\ attempts' = <<>>
    /\ response' = Null
    /\ error' = NoError
    /\ postError' = NoError
    /\ postCalls' = <<>>
    /\ posted' = <<>>
    /\ outcome' = [state |-> "pending", thrown |-> NoError]
    /\ log' = <<>>
    /\ fetchCall' = [channel |-> "", ts |-> ""]
    /\ fetched' = <<>>
    /\ imageFailures' = {}
    /\ UNCHANGED <<env, rawThread, directory, botUserId, initState, mainVars, calls,
                   receiverVars, threadVars, concVars, promptVars, bootVars,
                   retryVars, initialized, records, initCalls>>

\* lines 36-40: the awaited handler call has settled.  When it resolved the
\* loop goes on; when it rejected the error is logged and thrown again, and
\* the invocation rejects with it.  The locals of the handler call are gone.
SqsHandlerSettles ==
    /\ sqsPc = "handling"
    /\ pc = "done"
    /\ processings' = Append(processings,
                             HandlerCall(ThisInvocation, recordIdx, event, outcome.state))
    /\ delivered' = delivered \o [k \in DOMAIN posted |-> Accepted(posted[k])]
    /\ IF outcome.state = "resolved"
       THEN /\ recordIdx' = recordIdx + 1
            /\ sqsPc' = "looping"
            /\ UNCHANGED <<sqsResults, sqsThrown>>
       ELSE /\ sqsResults' = Append(sqsResults,
                                    SqsResult(Len(records), "rejected", recordIdx))
            /\ sqsThrown' = outcome.thrown
            /\ sqsPc' = "idle"
            /\ UNCHANGED recordIdx
    /\ localBotId' = Null
    /\ event' = [channel |-> "", ts |-> "", thread_ts |-> ""]
    /\ pc' = "idle"
    /\ slackMessages' = <<>>
    /\ geminiMessages' = <<>>
    /\ idx' = 0
    /\ request' = NoRequest
    /\ attempts' = <<>>
    /\ response' = Null
    /\ error' = NoError
    /\ postError' = NoError
    /\ postCalls' = <<>>
    /\ posted' = <<>>
    /\ outcome' = [state |-> "pending", thrown |-> NoError]
    /\ log' = <<>>
    /\ fetchCall' = [channel |-> "", ts |-> ""]
    /\ fetched' = <<>>
    /\ imageFailures' = {}
    /\ UNCHANGED <<env, rawThread, directory, botUserId, initState, mainVars, calls,
                   receiverVars, threadVars, concVars, promptVars, bootVars,
                   retryVars, initialized, records, initCalls>>

\* line 43: the loop has passed the last record and the invocation resolves
SqsResolves ==
    /\ sqsPc = "looping"
    /\ recordIdx > Len(records)
    /\ sqsResults' = Append(sqsResults, SqsResult(Len(records), "resolved", recordIdx))
    /\ sqsPc' = "idle"
    /\ UNCHANGED <<env, rawThread, directory, botUserId, initState, mainVars, calls,
                   handlerVars, receiverVars, threadVars, concVars, promptVars,
                   bootVars, retryVars, initialized, records, recordIdx, initCalls,
                   processings, delivered, sqsThrown>>

SqsNext ==
    \/ \E batch \in SqsBatches : SqsInvoke(batch)
    \/ SqsInitializeOk
    \/ SqsInitializeFails
    \/ SqsSkipRecord
    \/ SqsParseFails
    \/ SqsHandleRecord
    \/ SqsHandlerStep
    \/ SqsHandlerSettles
    \/ SqsResolves

\* the thread every mention of the processor finds: one message with an image
SqsInit ==
    /\ env = EnvOf("", <<>>)
    /\ rawThread = [hasMessages |-> TRUE,
                    messages |-> <<RawMsg("U1", "", "the receipt",
                                          <<File("f1", "image/png", TRUE)>>)>>]
    /\ directory = DirectoryOk
    /\ Constructed

SqsSpec == SqsInit /\ [][SqsNext]_vars

-----------------------------------------------------------------------------
(* C35 *)

LastResult == sqsResults[Len(sqsResults)]

\* the handler calls the processor made in invocation n
CallsOf(n) == {p \in DOMAIN processings : processings[p].invocation = n}

\* C35: the flag of the container is set only by an initialize that
\* resolved, and is never cleared.  initialize is called exactly by the
\* invocations that find the flag unset; when it rejects, the invocation
\* rejects at once, no record of it is handled, and the flag stays unset.
C35_InitializedFlag ==
    /\ [](initialized => initState = "ok" /\ botUserId = BotId)
    /\ [][initialized => initialized']_vars
    /\ [][(sqsPc = "idle" /\ sqsPc' # "idle") =>
            IF initialized
            THEN initCalls' = initCalls /\ sqsPc' = "looping"
            ELSE initCalls' = initCalls + 1 /\ sqsPc' = "initializing"]_vars
    /\ [][initCalls' # initCalls => sqsPc = "idle" /\ ~initialized]_vars
    /\ [][(sqsPc = "initializing" /\ initState' = "failed") =>
            /\ ~initialized'
            /\ sqsPc' = "idle"
            /\ sqsResults' = Append(sqsResults, SqsResult(Len(records), "rejected", 0))
            /\ processings' = processings
            /\ delivered' = delivered]_vars
    /\ [](\A n \in DOMAIN sqsResults : sqsResults[n].at = 0 => CallsOf(n) = {})

\* The first invocation failed in initialize, the second initialized and
\* went through, the third found the flag set and did not initialize.
C35_Witness ==
    /\ Len(sqsResults) = 3
    /\ sqsResults[1] = SqsResult(1, "rejected", 0)
    /\ sqsResults[2].state = "resolved"
    /\ sqsResults[3].state = "resolved"
    /\ initCalls = 2
    /\ initialized
    /\ Len(processings) = 2

-----------------------------------------------------------------------------
(* C36 *)

\* record i of the batch is an app_mention
IsMentionRecord(i) ==
    /\ ~JsonParse(records[i]).threw
    /\ JsonParse(records[i]).value.type = "app_mention"

\* the invocation the batch in records belongs to
BatchInvocation == IF sqsPc = "idle" THEN Len(sqsResults) ELSE ThisInvocation

\* the records of the batch whose handler call has settled
SettledRecords ==
    {i \in DOMAIN records : IsMentionRecord(i) /\ i < recordIdx}
        \cup {i \in DOMAIN records :
                /\ sqsPc = "idle" /\ sqsResults # <<>>
                /\ LastResult.state = "rejected" /\ LastResult.at = i
                /\ i = recordIdx /\ IsMentionRecord(i)}

\* delivered is kept, and possibly extended
Extends(longer, shorter) ==
    /\ Len(shorter) <= Len(longer)
    /\ SubSeq(longer, 1, Len(shorter)) = shorter

\* C36: the handler calls of an invocation are those of the app_mention
\* records of its batch, one per record, in batch order and each with the
\* event of its record; a record of another type gets no call.  A call that
\* rejects is the last of its invocation: the invocation rejects at that
\* record and the records behind it get no call.  What was posted before
\* stays posted.
C36_SequentialStopAtFailure ==
    /\ [](/\ {processings[p].record : p \in CallsOf(BatchInvocation)} = SettledRecords
          /\ \A p, q \in CallsOf(BatchInvocation) :
                p < q => /\ processings[p].record < processings[q].record
                         /\ processings[p].state = "resolved"
          /\ \A p \in CallsOf(BatchInvocation) :
                /\ processings[p].event = JsonParse(records[processings[p].record]).value
                /\ processings[p].state = "rejected" =>
                      /\ sqsPc = "idle"
                      /\ LastResult = SqsResult(Len(records), "rejected",
                                                processings[p].record)
          /\ (sqsPc = "idle" /\ sqsResults # <<>> /\ LastResult.state = "resolved") =>
                /\ recordIdx = Len(records) + 1
                /\ \A i \in DOMAIN records : ~JsonParse(records[i]).threw)
    /\ [][Extends(delivered', delivered) /\ Extends(processings', processings)]_vars

\* A batch of three mentions: the first was answered, the handling of the
\* second failed, the invocation rejected there and the third got no call;
\* the reply to the first is still there.
C36_Witness ==
    /\ sqsPc = "idle"
    /\ Len(records) = 3
    /\ \A i \in 1..3 : IsMentionRecord(i)
    /\ LastResult = SqsResult(3, "rejected", 2)
    /\ Len(processings) = 2
    /\ processings[1].state = "resolved"
    /\ processings[2].state = "rejected"
    /\ \E k \in DOMAIN delivered :
          /\ delivered[k].kind = "reply"
          /\ delivered[k].channel = processings[1].event.channel

-----------------------------------------------------------------------------
(* C31 *)

\* the replies the platform accepted for the thread of the event
RepliesFor(ev) ==
    {k \in DOMAIN delivered :
        /\ delivered[k].kind = "reply"
        /\ delivered[k].channel = ev.channel
        /\ delivered[k].thread_ts = ThreadTs(ev)}

\* the handler calls for the event that resolved, that is (C33) those that
\* posted their reply
AnsweredCalls(ev) ==
    {p \in DOMAIN processings :
        processings[p].event = ev /\ processings[p].state = "resolved"}

MentionEvents == {ev \in ReceiverEvents : ev.type = "app_mention"}

\* C31: when the handler call of a record rejects, the invocation of the
\* processor rejects with the same error, which is the error of the
\* pipeline.  A mention record at the head of the loop is handled by a new
\* handler call that starts with the thread fetch, whatever was handled
\* before; so the replies posted for an event are as many as the handler
\* calls for it that posted their reply.
C31_RethrowAndNoDeduplication ==
    /\ [][(sqsPc = "handling" /\ pc = "done" /\ processings' # processings) =>
            IF outcome.state = "rejected"
            THEN /\ sqsPc' = "idle"
                 /\ sqsResults'[Len(sqsResults')].state = "rejected"
                 /\ sqsThrown' = outcome.thrown
                 /\ sqsThrown' = error
            ELSE sqsPc' = "looping" /\ sqsResults' = sqsResults]_vars
    /\ [][(/\ sqsPc = "looping"
           /\ recordIdx <= Len(records)
           /\ IsMentionRecord(recordIdx)) =>
            /\ sqsPc' = "handling"
            /\ event' = JsonParse(records[recordIdx]).value
            /\ pc' = "fetching"
            /\ log' = <<Step("fetch", "call")>>]_vars
    /\ [](\A ev \in MentionEvents :
            Cardinality(RepliesFor(ev)) = Cardinality(AnsweredCalls(ev)))

\* An event was answered, the batch failed at the record behind it and was
\* delivered again: the event was handled a second time and answered twice.
C31_Witness ==
    /\ Len(sqsResults) = 2
    /\ sqsResults[1] = SqsResult(2, "rejected", 2)
    /\ sqsResults[2].state = "resolved"
    /\ Len(processings) = 3
    /\ processings[1].event = processings[3].event
    /\ Cardinality(RepliesFor(processings[1].event)) = 2

====
